---- MODULE Spec2Model ----
(***************************************************************************)
(* One invocation of idrac_redfish_storage_controller: main() dispatches a *)
(* command (or the attributes path) to its handler, the handler reads the  *)
(* remote state, decides, and submits at most one action; main() then      *)
(* tracks the job and exits with a normalized outcome.                     *)
(*                                                                         *)
(* Identifiers (FQDDs) are sequences of their ':'-separated segments, so   *)
(* "Disk.Bay.0:Enclosure.Internal.0-1:RAID.1" is                           *)
(* <<"Disk.Bay.0", "Enclosure.Internal.0-1", "RAID.1">>.                   *)
(***************************************************************************)
EXTENDS Integers, Sequences, FiniteSets, TLC

VARIABLES
    params,     \* module.params and module.check_mode of this invocation
    pc,         \* position of main(): "start", "dispatch", "job", "poll", "done"
    requests,   \* every request sent through redfish_obj.invoke_request, in order
    payload,    \* body of the mutating request (POST data / PATCH data)
    snap,       \* what the handler read from the remote system
    job,        \* job_id / job_uri taken from the Location header, time_set
    jobState,   \* JobState of the remote job (changed by the remote system only)
    budget,     \* what is left of job_wait_timeout, in polling intervals
    lastResp,   \* response of the last job read by wait_for_job_completion
    outcome,    \* the exit_json / fail_json record, or an escaped exception
    first,      \* the invocation that ended before this one, when there was one
    conc,       \* two invocations running at the same time, and the drive they share
    ome         \* an invocation of ome_firmware_baseline_compliance_info

vars == <<params, pc, requests, payload, snap, job, jobState, budget, lastResp, outcome,
          first, conc, ome>>

----------------------------------------------------------------------------
(* Bounds of the model *)

\* job_wait_timeout is drawn from 1..MaxWait polling intervals
MaxWait == 2
\* the target list holds at most MaxTargets drive identifiers
MaxTargets == 2

----------------------------------------------------------------------------
(* Constant tables of the module *)

Commands ==
    {"ResetConfig", "AssignSpare", "SetControllerKey", "RemoveControllerKey",
     "ReKey", "UnassignSpare", "EnableControllerEncryption", "BlinkTarget",
     "UnBlinkTarget", "ConvertToRAID", "ConvertToNonRAID", "ChangePDStateToOnline",
     "ChangePDStateToOffline", "LockVirtualDisk", "OnlineCapacityExpansion",
     "SecureErase"}

NoCommand == "None"

\* mutant: every RAID type grows one drive at a time
OCE_MIN_PD_RAID_MAPPING_all_one == [t \in {"RAID0", "RAID5", "RAID6", "RAID10"} |-> 1]

OCE_MIN_PD_RAID_MAPPING == [t \in {"RAID0", "RAID5", "RAID6", "RAID10"} |->
                              IF t = "RAID10" THEN 2 ELSE 1]

\* (size - vd_size_MB) < 100 is rejected
OCE_MIN_DELTA_MB == 100

BytesPerMB == 1048576

ApplyTimes == {"Immediate", "OnReset", "AtMaintenanceWindowStart", "InMaintenanceWindowOnReset"}

----------------------------------------------------------------------------
(* Identifiers *)

NoneId == <<>>                      \* a parameter that was not given (None)
CONTROLLER_1 == <<"RAID.1">>
DRIVE_0 == <<"Disk.Bay.0", "Enclosure.Internal.0-1", "RAID.1">>
DRIVE_1 == <<"Disk.Bay.1", "Enclosure.Internal.0-1", "RAID.1">>
DRIVE_2 == <<"Disk.Bay.2", "Enclosure.Internal.0-1", "RAID.1">>
VOLUME_1 == <<"Disk.Virtual.0", "RAID.1">>
VOLUME_2 == <<"Disk.Virtual.1", "RAID.1">>

DriveIds == {DRIVE_0, DRIVE_1, DRIVE_2}

\* mutant: the text before the first ':' of an identifier
ControllerIdOf_first_segment(id) == <<id[1]>>

\* ctrl.split(":")[-1]: the text after the last ':' of an identifier
ControllerIdOf(id) == <<id[Len(id)]>>

RECURSIVE SeqsOver(_, _)
SeqsOver(S, n) ==
    IF n = 0 THEN {<<>>}
    ELSE LET shorter == SeqsOver(S, n - 1)
         IN  shorter \cup {Append(s, x) : s \in {t \in shorter : Len(t) = n - 1}, x \in S}

Range(s) == {s[i] : i \in DOMAIN s}

\* the values an input ranges over: S when the code reads it, else the one value d
Only(read, S, d) == IF read THEN S ELSE {d}

\* lists of distinct drives, in the order the caller wrote them
TargetLists == {s \in SeqsOver(DriveIds, MaxTargets) : Cardinality(Range(s)) = Len(s)}

RECURSIVE SelectSeq2(_, _)
\* [each for each in s if each not in T]
SelectSeq2(s, T) ==
    IF s = <<>> THEN <<>>
    ELSE IF s[1] \in T THEN SelectSeq2(Tail(s), T)
         ELSE <<s[1]>> \o SelectSeq2(Tail(s), T)

\* pd_ready_state.count(x)
Count(s, x) == Cardinality({i \in DOMAIN s : s[i] = x})

----------------------------------------------------------------------------
(* Outcomes *)

NoTask == [id |-> "", uri |-> <<>>]
NoStatus == [JobState |-> "", Message |-> ""]

Msg(id, arg) == [id |-> id, arg |-> arg]

NoOutcome ==
    [kind |-> "none", msg |-> Msg("", <<>>), status_msg |-> Msg("", <<>>),
     changed |-> FALSE, failed |-> FALSE,
     unreachable |-> FALSE, skipped |-> FALSE, task |-> NoTask, status |-> NoStatus,
     error_info |-> FALSE]

\* module.exit_json(msg=...)
Exit(id, arg) == [NoOutcome EXCEPT !.kind = "exit_json", !.msg = Msg(id, arg)]
\* module.exit_json(msg=..., changed=True)
ExitChanged(id, arg) == [Exit(id, arg) EXCEPT !.changed = TRUE]
\* module.exit_json(msg=..., failed=True)
ExitFailed(id, arg) == [Exit(id, arg) EXCEPT !.failed = TRUE]
\* module.exit_json(failed=True, status_msg=...): no msg is given
ExitFailedStatusMsg(id, arg) ==
    [NoOutcome EXCEPT !.kind = "exit_json", !.failed = TRUE, !.status_msg = Msg(id, arg)]
\* module.exit_json(msg=..., skipped=True)
ExitSkipped(id, arg) == [Exit(id, arg) EXCEPT !.skipped = TRUE]
\* module.fail_json(msg=...)
Fail(id, arg) == [NoOutcome EXCEPT !.kind = "fail_json", !.msg = Msg(id, arg), !.failed = TRUE]

CHANGES_FOUND == Msg("CHANGES_FOUND", <<>>)
NO_CHANGES_FOUND == Msg("NO_CHANGES_FOUND", <<>>)

JOB_URI_OEM(job_id) == <<"redfish", "v1", "Managers", "iDRAC.Embedded.1", "Oem", "Dell", "Jobs", job_id>>

\* the job resource the remote system answers an accepted action with
JobLocation == <<"redfish", "v1", "Managers", "iDRAC.Embedded.1", "Jobs", "JID_1">>

\* job_uri.split("/")[-1]
JobIdOf(job_uri) == job_uri[Len(job_uri)]

NoJob == [id |-> "", uri |-> <<>>, time_set |-> ""]

----------------------------------------------------------------------------
(* Requests and responses *)

\* response, HTTPError, URLError, SSLValidationError
GetResults == {"ok", "http", "url", "ssl"}
\* 2xx with / without Location, errors
PostResults == {"ok", "no_location", "http", "url", "ssl"}

\* the results that are failures of the transport, and the exception each one raises
Transport == {"url", "ssl"}
TransportExc(r) == IF r = "ssl" THEN "SSLValidationError" ELSE "URLError"

Req(method, uri, controller_id, id, result) ==
    [method |-> method, uri |-> uri, controller_id |-> controller_id, id |-> id,
     result |-> result]

Mutating(r) == r.method \in {"POST", "PATCH"}

NoPayload ==
    [sent |-> FALSE, action |-> "", TargetFQDD |-> NoneId, PDArray |-> <<>>,
     VirtualDiskArray |-> <<>>, Size |-> -1, State |-> "", Mode |-> "",
     Attributes |-> {}, ApplyTime |-> ""]

Payload(action) == [NoPayload EXCEPT !.sent = TRUE, !.action = action]

NoTime == <<0, "">>
NoAttrs == [ControllerMode |-> "", CopybackMode |-> ""]

NoSnap ==
    [read |-> FALSE, security_status |-> "", key_id |-> FALSE, members |-> FALSE,
     hot_spare |-> "", raid_status |-> <<>>, lock_status |-> "", all_sed |-> TRUE,
     raid_type |-> "", current_pd |-> {}, capacity_bytes |-> 0,
     drive_ready |-> "", erase_capable |-> FALSE, scheduled_job |-> FALSE,
     curr_attr |-> NoAttrs, time_settings |-> {}, curr_time |-> NoTime,
     date_offset |-> "", firm_3 |-> TRUE]

----------------------------------------------------------------------------
(* What a handler hands back to main() *)

\* return resp, job_uri, job_id
Ret(reqs, s, pl, loc) ==
    [reqs |-> reqs, snap |-> s, payload |-> pl, out |-> NoOutcome, exc |-> "none",
     loc |-> loc, sync |-> FALSE, time_set |-> ""]

\* module.exit_json / module.fail_json inside the handler
Done(reqs, s, out) ==
    [reqs |-> reqs, snap |-> s, payload |-> NoPayload, out |-> out, exc |-> "none",
     loc |-> <<>>, sync |-> FALSE, time_set |-> ""]

\* an exception leaves the handler
Raise(reqs, s, pl, exc) ==
    [reqs |-> reqs, snap |-> s, payload |-> pl, out |-> NoOutcome, exc |-> exc,
     loc |-> <<>>, sync |-> FALSE, time_set |-> ""]

\* the except clauses of main()
MainExcept(exc) ==
    IF exc = "HTTPError"
    THEN [Fail("HTTPError", <<>>) EXCEPT !.error_info = TRUE]
    ELSE IF exc = "URLError"
    THEN [Exit("URLError", <<>>) EXCEPT !.unreachable = TRUE]
    ELSE IF exc \in {"RuntimeError", "SSLValidationError", "ConnectionError", "KeyError",
                     "ImportError", "ValueError", "TypeError", "AttributeError"}
    THEN Fail(exc, <<>>)
    ELSE [NoOutcome EXCEPT !.kind = "raised", !.msg = Msg(exc, <<>>)]

\* mutant: a rejected POST is sent a second time
SubmitWithRetry(reqs, s, pl, post_r) ==
    LET sent == Append(reqs, Req("POST", pl.action, NoneId, pl.TargetFQDD, post_r))
        again == Append(sent, Req("POST", pl.action, NoneId, pl.TargetFQDD, post_r))
    IN  IF post_r = "http" THEN Raise(again, s, pl, "HTTPError")
        ELSE IF post_r \in Transport THEN Raise(sent, s, pl, TransportExc(post_r))
        ELSE IF post_r = "no_location" THEN Raise(sent, s, pl, "AttributeError")
        ELSE Ret(sent, s, pl, JobLocation)

\* mutant: the job is deleted as soon as the POST was accepted
SubmitThenCancel(reqs, s, pl, post_r) ==
    LET sent == Append(reqs, Req("POST", pl.action, NoneId, pl.TargetFQDD, post_r))
        cancel == Append(sent, Req("DELETE", "JOB_URI_OEM", NoneId, <<JobIdOf(JobLocation)>>, "ok"))
    IN  IF post_r = "http" THEN Raise(sent, s, pl, "HTTPError")
        ELSE IF post_r \in Transport THEN Raise(sent, s, pl, TransportExc(post_r))
        ELSE IF post_r = "no_location" THEN Raise(sent, s, pl, "AttributeError")
        ELSE Ret(cancel, s, pl, JobLocation)

\* mutant: the resource is read once more after the POST was accepted
SubmitThenReread(reqs, s, pl, post_r) ==
    LET sent == Append(reqs, Req("POST", pl.action, NoneId, pl.TargetFQDD, post_r))
        reread == Append(sent, Req("GET", "PD_URI", NoneId, pl.TargetFQDD, "ok"))
    IN  IF post_r = "http" THEN Raise(sent, s, pl, "HTTPError")
        ELSE IF post_r \in Transport THEN Raise(sent, s, pl, TransportExc(post_r))
        ELSE IF post_r = "no_location" THEN Raise(sent, s, pl, "AttributeError")
        ELSE Ret(reread, s, pl, JobLocation)

\* resp = invoke_request("POST", ...); job_uri = resp.headers.get("Location");
\* job_id = job_uri.split("/")[-1]; return resp, job_uri, job_id
Submit(reqs, s, pl, post_r) ==
    LET sent == Append(reqs, Req("POST", pl.action, NoneId, pl.TargetFQDD, post_r))
    IN  IF post_r = "http" THEN Raise(sent, s, pl, "HTTPError")
        ELSE IF post_r \in Transport THEN Raise(sent, s, pl, TransportExc(post_r))
        ELSE IF post_r = "no_location" THEN Raise(sent, s, pl, "AttributeError")
        ELSE Ret(sent, s, pl, JobLocation)

----------------------------------------------------------------------------
(* Parameters of an invocation (already past argument validation) *)

Flags ==
    {[check_mode |-> c, job_wait |-> FALSE, job_wait_timeout |-> MaxWait] : c \in BOOLEAN}
    \cup {[check_mode |-> c, job_wait |-> TRUE, job_wait_timeout |-> t] :
            c \in BOOLEAN, t \in 1..MaxWait}

AttrNames == {"ControllerMode", "CopybackMode", "Bogus1", "Bogus2"}
\* the order in which the caller wrote the attributes (dict order)
AttrOrder == <<"ControllerMode", "CopybackMode", "Bogus1", "Bogus2">>
NoAttrVal == [n \in AttrNames |-> ""]

BaseParams(cmd, f) ==
    [command |-> cmd, check_mode |-> f.check_mode, job_wait |-> f.job_wait,
     job_wait_timeout |-> f.job_wait_timeout, controller_id |-> NoneId,
     target_given |-> FALSE, target |-> <<>>, volume_given |-> FALSE, volume_id |-> <<>>,
     size |-> -1, mode |-> "LKM", keys |-> TRUE, attr_names |-> {}, attr_val |-> NoAttrVal,
     apply_time |-> "Immediate", mw_start |-> NoTime]

VolumeLists == {<<>>, <<VOLUME_1>>, <<VOLUME_1, VOLUME_2>>}
\* size in MB: 0, and values around the 100 MB floor above a 1000 MB volume
Sizes == {0, 1050, 1099, 1100, 1785}

ControllerParams ==
    {[BaseParams(cmd, f) EXCEPT !.controller_id = CONTROLLER_1] :
        cmd \in {"ResetConfig", "SetControllerKey", "RemoveControllerKey"}, f \in Flags}
    \cup {[BaseParams(cmd, f) EXCEPT !.controller_id = CONTROLLER_1, !.mode = m, !.keys = k] :
        cmd \in {"ReKey", "EnableControllerEncryption"}, f \in Flags,
        m \in {"LKM", "SEKM"}, k \in BOOLEAN}

DriveParams ==
    {[BaseParams(cmd, f) EXCEPT !.target_given = TRUE, !.target = t] :
        cmd \in {"UnassignSpare", "ConvertToRAID", "ConvertToNonRAID",
                 "ChangePDStateToOnline", "ChangePDStateToOffline"},
        f \in Flags, t \in TargetLists}
    \cup {[BaseParams("AssignSpare", f) EXCEPT !.target_given = TRUE, !.target = t,
                                              !.volume_given = TRUE, !.volume_id = v] :
        f \in Flags, t \in TargetLists, v \in VolumeLists}
    \cup {[BaseParams("AssignSpare", f) EXCEPT !.target_given = TRUE, !.target = t] :
        f \in Flags, t \in TargetLists}
    \cup {[BaseParams("SecureErase", f) EXCEPT !.controller_id = CONTROLLER_1,
                                              !.target_given = TRUE, !.target = t] :
        f \in Flags, t \in TargetLists}

BlinkParams ==
    {[BaseParams(cmd, f) EXCEPT !.target_given = TRUE, !.target = t] :
        cmd \in {"BlinkTarget", "UnBlinkTarget"}, f \in Flags,
        t \in {<<>>, <<DRIVE_0>>, <<DRIVE_0, DRIVE_1>>}}
    \cup {[BaseParams(cmd, f) EXCEPT !.volume_given = TRUE, !.volume_id = v] :
        cmd \in {"BlinkTarget", "UnBlinkTarget"}, f \in Flags, v \in VolumeLists}
    \cup {[BaseParams(cmd, f) EXCEPT !.target_given = TRUE, !.target = <<DRIVE_0>>,
                                    !.volume_given = TRUE, !.volume_id = <<VOLUME_1>>] :
        cmd \in {"BlinkTarget", "UnBlinkTarget"}, f \in Flags}

VolumeParams ==
    {[BaseParams("LockVirtualDisk", f) EXCEPT !.volume_given = TRUE, !.volume_id = v] :
        f \in Flags, v \in VolumeLists}
    \cup {[BaseParams("OnlineCapacityExpansion", f) EXCEPT
                !.volume_given = TRUE, !.volume_id = v, !.target_given = TRUE, !.target = t] :
        f \in Flags, v \in VolumeLists \ {<<>>}, t \in TargetLists}
    \cup {[BaseParams("OnlineCapacityExpansion", f) EXCEPT
                !.volume_given = TRUE, !.volume_id = v, !.size = sz] :
        f \in Flags, v \in VolumeLists \ {<<>>}, sz \in Sizes}

\* maintenance_window.start_time "YYYY-MM-DDThh:mm:ss<offset>" as <<local time, offset>>
MwStarts ==
    {<<2, "-05:00">>, <<1, "-05:00">>, <<0, "-05:00">>, <<2, "+05:30">>, <<0, "+05:30">>}

AttrRequests ==
    {[names |-> N,
      val |-> [n \in AttrNames |->
                 IF n \notin N THEN ""
                 ELSE IF n = "ControllerMode" THEN cm
                 ELSE IF n = "CopybackMode" THEN cb ELSE "x"]] :
        N \in {M \in SUBSET AttrNames : "Bogus2" \in M => "Bogus1" \in M},
        cm \in {"RAID", "HBA", ""}, cb \in {"On", "Off"}}

AttributeParams ==
    {[BaseParams(NoCommand, f) EXCEPT !.controller_id = CONTROLLER_1,
            !.attr_names = a.names, !.attr_val = a.val, !.apply_time = at, !.mw_start = mw] :
        f \in Flags, a \in {r \in AttrRequests : r.names # {}},
        at \in {"AtMaintenanceWindowStart", "InMaintenanceWindowOnReset"}, mw \in MwStarts}
    \cup {[BaseParams(NoCommand, f) EXCEPT !.controller_id = CONTROLLER_1,
            !.attr_names = a.names, !.attr_val = a.val, !.apply_time = at] :
        f \in Flags, a \in {r \in AttrRequests : r.names # {}}, at \in {"Immediate", "OnReset"}}
    \cup {[BaseParams(NoCommand, f) EXCEPT !.attr_names = {"CopybackMode"},
            !.attr_val = [NoAttrVal EXCEPT !["CopybackMode"] = "Off"]] : f \in Flags}

Invocations ==
    ControllerParams \cup DriveParams \cup BlinkParams \cup VolumeParams \cup AttributeParams

\* no invocations running at the same time
NoConc == [remote |-> "", jobs |-> 0, proc |-> <<>>, log |-> <<>>]

\* ome_firmware_baseline_compliance_info is not running
NoOme ==
    [pc |-> "off",
     params |-> [given |-> "", baseline_name |-> "", device_ids |-> <<>>,
                 device_group_names |-> <<>>, device_service_tags |-> <<>>],
     requests |-> <<>>,
     outcome |-> [kind |-> "none", msg |-> "", data |-> <<>>, error_info |-> FALSE]]

\* no invocation has ended yet
NoFirst == [done |-> FALSE, snap |-> NoSnap, outcome |-> NoOutcome, requests |-> <<>>]

Init ==
    /\ params \in Invocations
    /\ pc = "start"
    /\ requests = <<>>
    /\ payload = NoPayload
    /\ snap = NoSnap
    /\ job = NoJob
    /\ jobState = "None"
    /\ budget = 0
    /\ lastResp = NoStatus
    /\ outcome = NoOutcome
    /\ first = NoFirst
    /\ conc = NoConc
    /\ ome = NoOme

\* mutant: the wait is started without a budget, and never reads the job
CompleteWithoutBudget(res) ==
    /\ requests' = res.reqs
    /\ snap' = res.snap
    /\ payload' = res.payload
    /\ lastResp' = lastResp
    /\ IF res.exc # "none"
       THEN /\ outcome' = MainExcept(res.exc)
            /\ pc' = "done"
            /\ UNCHANGED <<job, jobState, budget>>
       ELSE IF res.out.kind # "none"
       THEN /\ outcome' = res.out
            /\ pc' = "done"
            /\ UNCHANGED <<job, jobState, budget>>
       ELSE /\ outcome' = outcome
            /\ pc' = "job"
            /\ job' = [id |-> JobIdOf(res.loc), uri |-> JOB_URI_OEM(JobIdOf(res.loc)),
                       time_set |-> res.time_set]
            /\ jobState' = "New"
            /\ budget' = 0
    /\ UNCHANGED <<params, first, conc, ome>>

\* what main() does with the value a handler hands back
Complete(res) ==
    /\ requests' = res.reqs
    /\ snap' = res.snap
    /\ payload' = res.payload
    /\ lastResp' = lastResp
    /\ IF res.exc # "none"
       THEN /\ outcome' = MainExcept(res.exc)
            /\ pc' = "done"
            /\ UNCHANGED <<job, jobState, budget>>
       ELSE IF res.out.kind # "none"
       THEN /\ outcome' = res.out
            /\ pc' = "done"
            /\ UNCHANGED <<job, jobState, budget>>
       ELSE /\ outcome' = outcome
            /\ pc' = "job"
            /\ job' = [id |-> JobIdOf(res.loc), uri |-> JOB_URI_OEM(JobIdOf(res.loc)),
                       time_set |-> res.time_set]
            /\ jobState' = "New"
            /\ budget' = params.job_wait_timeout
    /\ UNCHANGED <<params, first, conc, ome>>

----------------------------------------------------------------------------
(* validate_inputs *)

\* mutant: the length of volume_id is not looked at
validate_inputs_target_only(p) ==
    IF p.command \in {"ReKey", "EnableControllerEncryption"} /\ p.mode = "LKM"
    THEN IF ~p.keys THEN Fail("KEYS_REQUIRED", <<p.command>>) ELSE NoOutcome
    ELSE IF p.command \in {"AssignSpare", "UnassignSpare", "BlinkTarget", "UnBlinkTarget",
                           "LockVirtualDisk", "ChangePDStateToOnline",
                           "ChangePDStateToOffline", "SecureErase"}
    THEN IF p.target_given /\ ~(1 >= Len(p.target))
         THEN Fail("TARGET_ERR_MSG", <<"physical disk">>)
         ELSE NoOutcome
    ELSE NoOutcome

validate_inputs(p) ==
    IF p.command = "ReKey" /\ p.mode = "LKM"
    THEN IF ~p.keys THEN Fail("KEYS_REQUIRED", <<p.command>>) ELSE NoOutcome
    ELSE IF p.command = "EnableControllerEncryption" /\ p.mode = "LKM"
    THEN IF ~p.keys THEN Fail("KEYS_REQUIRED", <<p.command>>) ELSE NoOutcome
    ELSE IF p.command \in {"AssignSpare", "UnassignSpare", "BlinkTarget", "UnBlinkTarget",
                           "LockVirtualDisk"}
    THEN IF p.target_given /\ ~(1 >= Len(p.target))
         THEN Fail("TARGET_ERR_MSG", <<"physical disk">>)
         ELSE IF p.volume_given /\ ~(1 >= Len(p.volume_id))
         THEN Fail("TARGET_ERR_MSG", <<"virtual drive">>)
         ELSE NoOutcome
    ELSE IF p.command \in {"ChangePDStateToOnline", "ChangePDStateToOffline", "SecureErase"}
    THEN IF p.target_given /\ ~(1 >= Len(p.target))
         THEN Fail("TARGET_ERR_MSG", <<"physical disk">>)
         ELSE NoOutcome
    ELSE NoOutcome

\* main(): if not bool(module.params["attributes"]): validate_inputs(module)
ValidateInputs ==
    /\ pc = "start"
    /\ LET out == IF params.attr_names = {} THEN validate_inputs(params) ELSE NoOutcome
       IN  /\ outcome' = out
           /\ pc' = IF out.kind = "none" THEN "dispatch" ELSE "done"
    /\ UNCHANGED <<first, conc, ome, params, requests, payload, snap, job, jobState, budget, lastResp>>

----------------------------------------------------------------------------
(* check_id_exists *)

\* the request check_id_exists sends
CheckIdRequest(item_id, r) == Req("GET", "CONTROLLER_URI", item_id, item_id, r)

\* the outcome check_id_exists exits with, or NoOutcome when the id exists
check_id_exists(key, item_id, r) ==
    IF r = "unsuccessful" THEN ExitFailed("ID_NOT_FOUND", <<key>> \o item_id)
    ELSE IF r = "http"
    THEN [ExitFailed("ID_NOT_FOUND", <<key>> \o item_id) EXCEPT !.error_info = TRUE]
    ELSE NoOutcome

ExistsResults == GetResults \cup {"unsuccessful"}

----------------------------------------------------------------------------
(* ctrl_reset_config *)

\* mutant: a controller without volumes is reset all the same, outside check mode
ctrl_reset_config_without_members(p, exists_r, get_r, members, post_r) ==
    LET controller_id == p.controller_id
        r1 == <<CheckIdRequest(controller_id, exists_r)>>
        r2 == Append(r1, Req("GET", "VOLUME_URI", controller_id, NoneId, get_r))
        s  == [NoSnap EXCEPT !.read = TRUE, !.members = members]
        pl == [Payload(p.command) EXCEPT !.TargetFQDD = controller_id]
    IN  IF exists_r \in Transport THEN Raise(r1, NoSnap, NoPayload, TransportExc(exists_r))
        ELSE IF exists_r # "ok"
        THEN Done(r1, NoSnap, check_id_exists("controller_id", controller_id, exists_r))
        ELSE IF get_r = "http" THEN Raise(r2, NoSnap, NoPayload, "HTTPError")
        ELSE IF get_r \in Transport THEN Raise(r2, NoSnap, NoPayload, TransportExc(get_r))
        ELSE IF p.check_mode /\ members THEN Done(r2, s, ExitChanged("CHANGES_FOUND", <<>>))
        ELSE IF p.check_mode /\ ~members
        THEN Done(r2, s, Exit("NO_CHANGES_FOUND", <<>>))
        ELSE Submit(r2, s, pl, post_r)

ctrl_reset_config(p, exists_r, get_r, members, post_r) ==
    LET controller_id == p.controller_id
        r1 == <<CheckIdRequest(controller_id, exists_r)>>
        r2 == Append(r1, Req("GET", "VOLUME_URI", controller_id, NoneId, get_r))
        s  == [NoSnap EXCEPT !.read = TRUE, !.members = members]
        pl == [Payload(p.command) EXCEPT !.TargetFQDD = controller_id]
    IN  IF exists_r \in Transport THEN Raise(r1, NoSnap, NoPayload, TransportExc(exists_r))
        ELSE IF exists_r # "ok"
        THEN Done(r1, NoSnap, check_id_exists("controller_id", controller_id, exists_r))
        ELSE IF get_r = "http" THEN Raise(r2, NoSnap, NoPayload, "HTTPError")
        ELSE IF get_r \in Transport THEN Raise(r2, NoSnap, NoPayload, TransportExc(get_r))
        ELSE IF p.check_mode /\ members THEN Done(r2, s, ExitChanged("CHANGES_FOUND", <<>>))
        ELSE IF (p.check_mode /\ ~members) \/ (~p.check_mode /\ ~members)
        THEN Done(r2, s, Exit("NO_CHANGES_FOUND", <<>>))
        ELSE Submit(r2, s, pl, post_r)

CtrlResetConfig ==
    /\ pc = "dispatch"
    /\ params.command = "ResetConfig"
    /\ \E exists_r \in ExistsResults, get_r \in GetResults, members \in BOOLEAN,
          post_r \in PostResults :
          Complete(ctrl_reset_config(params, exists_r, get_r, members, post_r))

----------------------------------------------------------------------------
(* ctrl_key *)

\* SecurityStatus and "KeyID is not None" as the controller reports them; a
\* controller that cannot encrypt holds no key
ControllerStates ==
    {c \in [security_status : {"EncryptionNotCapable", "EncryptionCapable", "SecurityKeyAssigned"},
            key_id : BOOLEAN] :
        c.security_status = "EncryptionNotCapable" => ~c.key_id}

ctrl_key_payload(p) ==
    LET base == [Payload(p.command) EXCEPT !.TargetFQDD = p.controller_id]
    IN  IF p.command = "ReKey" \/ p.command = "EnableControllerEncryption"
        THEN [base EXCEPT !.Mode = p.mode]
        ELSE base

\* ctrl_key with the capability of the controller looked at only when an action is
\* about to be submitted, after the dry-run and no-change exits
ctrl_key_capability_checked_last(p, exists_r, get_r, c, post_r) ==
    LET controller_id == p.controller_id
        command == p.command
        r1 == <<CheckIdRequest(controller_id, exists_r)>>
        r2 == Append(r1, Req("GET", "CONTROLLER_URI", controller_id, controller_id, get_r))
        security_status == c.security_status
        has_key == c.key_id
        s  == [NoSnap EXCEPT !.read = TRUE, !.security_status = security_status,
                             !.key_id = has_key]
        changes == Done(r2, s, ExitChanged("CHANGES_FOUND", <<>>))
        nochanges == Done(r2, s, Exit("NO_CHANGES_FOUND", <<>>))
        post == IF security_status = "EncryptionNotCapable"
                THEN Done(r2, s, Fail("ENCRYPT_ERR_MSG", controller_id))
                ELSE Submit(r2, s, ctrl_key_payload(p), post_r)
    IN  IF exists_r \in Transport THEN Raise(r1, NoSnap, NoPayload, TransportExc(exists_r))
        ELSE IF exists_r # "ok"
        THEN Done(r1, NoSnap, check_id_exists("controller_id", controller_id, exists_r))
        ELSE IF get_r = "http" THEN Raise(r2, NoSnap, NoPayload, "HTTPError")
        ELSE IF get_r \in Transport THEN Raise(r2, NoSnap, NoPayload, TransportExc(get_r))
        ELSE IF command = "SetControllerKey"
        THEN IF p.check_mode /\ ~has_key THEN changes
             ELSE IF has_key THEN nochanges
             ELSE post
        ELSE IF command = "ReKey"
        THEN IF p.check_mode THEN changes ELSE post
        ELSE IF command = "RemoveControllerKey"
        THEN IF p.check_mode /\ has_key THEN changes
             ELSE IF ~has_key THEN nochanges
             ELSE post
        ELSE IF p.check_mode /\ ~(security_status = "SecurityKeyAssigned") THEN changes
             ELSE IF security_status = "SecurityKeyAssigned" THEN nochanges
             ELSE post

ctrl_key(p, exists_r, get_r, c, post_r) ==
    LET controller_id == p.controller_id
        command == p.command
        r1 == <<CheckIdRequest(controller_id, exists_r)>>
        r2 == Append(r1, Req("GET", "CONTROLLER_URI", controller_id, controller_id, get_r))
        security_status == c.security_status
        has_key == c.key_id           \* ctrl_key_id is not None
        s  == [NoSnap EXCEPT !.read = TRUE, !.security_status = security_status,
                             !.key_id = has_key]
        changes == Done(r2, s, ExitChanged("CHANGES_FOUND", <<>>))
        nochanges == Done(r2, s, Exit("NO_CHANGES_FOUND", <<>>))
        post == Submit(r2, s, ctrl_key_payload(p), post_r)
    IN  IF exists_r \in Transport THEN Raise(r1, NoSnap, NoPayload, TransportExc(exists_r))
        ELSE IF exists_r # "ok"
        THEN Done(r1, NoSnap, check_id_exists("controller_id", controller_id, exists_r))
        ELSE IF get_r = "http" THEN Raise(r2, NoSnap, NoPayload, "HTTPError")
        ELSE IF get_r \in Transport THEN Raise(r2, NoSnap, NoPayload, TransportExc(get_r))
        ELSE IF security_status = "EncryptionNotCapable"
        THEN Done(r2, s, Fail("ENCRYPT_ERR_MSG", controller_id))
        ELSE IF command = "SetControllerKey"
        THEN IF p.check_mode /\ ~has_key THEN changes
             ELSE IF (p.check_mode /\ has_key) \/ (~p.check_mode /\ has_key) THEN nochanges
             ELSE post
        ELSE IF command = "ReKey"
        THEN IF p.check_mode THEN changes ELSE post
        ELSE IF command = "RemoveControllerKey"
        THEN IF p.check_mode /\ has_key THEN changes
             ELSE IF (p.check_mode /\ ~has_key) \/ (~p.check_mode /\ ~has_key) THEN nochanges
             ELSE post
        ELSE \* EnableControllerEncryption
             IF p.check_mode /\ ~(security_status = "SecurityKeyAssigned") THEN changes
             ELSE IF (p.check_mode /\ security_status = "SecurityKeyAssigned")
                     \/ (~p.check_mode /\ security_status = "SecurityKeyAssigned")
             THEN nochanges
             ELSE post

CtrlKey ==
    /\ pc = "dispatch"
    /\ params.command \in {"SetControllerKey", "ReKey", "RemoveControllerKey",
                           "EnableControllerEncryption"}
    /\ \E exists_r \in ExistsResults, get_r \in GetResults, c \in ControllerStates,
          post_r \in PostResults :
          Complete(ctrl_key(params, exists_r, get_r, c, post_r))

----------------------------------------------------------------------------
(* hot_spare_config *)

HotspareTypes == {"None", "Dedicated", "Global"}

\* mutant: a drive that is no hot spare is left alone by AssignSpare
hot_spare_decision_none_is_assigned(check_mode, hot_spare, command) ==
    IF check_mode /\ ~(hot_spare = "None") /\ command = "UnassignSpare"
    THEN "changes"
    ELSE IF command = "AssignSpare" \/ hot_spare = "None"
    THEN "no_changes"
    ELSE "submit"

\* the if / elif / else of hot_spare_config on HotspareType
hot_spare_decision(check_mode, hot_spare, command) ==
    IF (check_mode /\ hot_spare = "None" /\ command = "AssignSpare")
       \/ (check_mode /\ ~(hot_spare = "None") /\ command = "UnassignSpare")
    THEN "changes"
    ELSE IF (check_mode /\ hot_spare \in {"Dedicated", "Global"} /\ command = "AssignSpare")
            \/ (~check_mode /\ hot_spare \in {"Dedicated", "Global"} /\ command = "AssignSpare")
            \/ (check_mode /\ hot_spare = "None" /\ command = "UnassignSpare")
            \/ (~check_mode /\ hot_spare = "None" /\ command = "UnassignSpare")
    THEN "no_changes"
    ELSE "submit"

hot_spare_config(p, get_r, hot_spare, post_r) ==
    IF p.target = <<>> THEN Raise(<<>>, NoSnap, NoPayload, "IndexError")   \* target[0]
    ELSE
    LET command == p.command
        drive_id == p.target[1]
        controller_id == ControllerIdOf(p.target[1])
        r1 == <<Req("GET", "PD_URI", controller_id, drive_id, get_r)>>
        s  == [NoSnap EXCEPT !.read = TRUE, !.hot_spare = hot_spare]
        base == [Payload(command) EXCEPT !.TargetFQDD = drive_id]
        pl == IF p.volume_given /\ command = "AssignSpare"
              THEN [base EXCEPT !.VirtualDiskArray = p.volume_id]
              ELSE base
    IN  IF get_r = "http" THEN Done(r1, NoSnap, Fail("PD_ERROR_MSG", drive_id))
        ELSE IF get_r \in Transport THEN Raise(r1, NoSnap, NoPayload, TransportExc(get_r))
        ELSE IF hot_spare_decision(p.check_mode, hot_spare, command) = "changes"
        THEN Done(r1, s, ExitChanged("CHANGES_FOUND", <<>>))
        ELSE IF hot_spare_decision(p.check_mode, hot_spare, command) = "no_changes"
        THEN Done(r1, s, Exit("NO_CHANGES_FOUND", <<>>))
        ELSE Submit(r1, s, pl, post_r)

HotSpareConfig ==
    /\ pc = "dispatch"
    /\ params.command \in {"AssignSpare", "UnassignSpare"}
    /\ \E get_r \in GetResults, hot_spare \in HotspareTypes, post_r \in PostResults :
          Complete(hot_spare_config(params, get_r, hot_spare, post_r))

----------------------------------------------------------------------------
(* change_pd_status *)

RaidStatuses == {"Ready", "NonRAID", "Online", "Offline"}

\* mutant: the no-change exit taken in check mode only
pd_state_no_changes_dry_only(check_mode, state, raid_status) ==
    check_mode /\ state = raid_status

\* elif (module.check_mode and state == raid_status) or
\*      (not module.check_mode and state == raid_status)
pd_state_no_changes(check_mode, state, raid_status) ==
    (check_mode /\ state = raid_status) \/ (~check_mode /\ state = raid_status)

change_pd_status(p, get_r, raid_status, post_r) ==
    IF p.target = <<>> THEN Raise(<<>>, NoSnap, NoPayload, "IndexError")   \* target[0]
    ELSE
    LET drive_id == p.target[1]
        controller_id == ControllerIdOf(p.target[1])
        state == IF p.command = "ChangePDStateToOnline" THEN "Online" ELSE "Offline"
        r1 == <<Req("GET", "PD_URI", controller_id, drive_id, get_r)>>
        s  == [NoSnap EXCEPT !.read = TRUE, !.raid_status = <<raid_status>>]
        pl == [Payload("ChangePDState") EXCEPT !.TargetFQDD = drive_id, !.State = state]
    IN  IF get_r = "http" THEN Done(r1, NoSnap, Fail("PD_ERROR_MSG", drive_id))
        ELSE IF get_r \in Transport THEN Raise(r1, NoSnap, NoPayload, TransportExc(get_r))
        ELSE IF p.check_mode /\ ~(state = raid_status)
        THEN Done(r1, s, ExitChanged("CHANGES_FOUND", <<>>))
        ELSE IF pd_state_no_changes(p.check_mode, state, raid_status)
        THEN Done(r1, s, Exit("NO_CHANGES_FOUND", <<>>))
        ELSE Submit(r1, s, pl, post_r)

ChangePdStatus ==
    /\ pc = "dispatch"
    /\ params.command \in {"ChangePDStateToOnline", "ChangePDStateToOffline"}
    /\ \E get_r \in GetResults, raid_status \in RaidStatuses, post_r \in PostResults :
          Complete(change_pd_status(params, get_r, raid_status, post_r))

----------------------------------------------------------------------------
(* convert_raid_status *)

\* the GET of target[i] for i = 1..n, the last one answered with `last`
DriveReads(target, n, last) ==
    [i \in 1..n |-> Req("GET", "PD_URI", ControllerIdOf(target[i]), target[i],
                        IF i = n THEN last ELSE "ok")]

\* fail_at = 0: every drive is read; fail_at = i: the read of target[i] raises fail_r
convert_raid_status(p, fail_at, fail_r, pd_ready_state, post_r) ==
    LET command == p.command
        target == p.target
        rall == DriveReads(target, Len(target), "ok")
        s  == [NoSnap EXCEPT !.read = TRUE, !.raid_status = pd_ready_state]
        pl == [Payload(command) EXCEPT !.PDArray = target]
    IN  IF fail_at > 0
        THEN IF fail_r = "http"
             THEN Done(DriveReads(target, fail_at, fail_r), NoSnap,
                       Fail("PD_ERROR_MSG", target[fail_at]))
             ELSE Raise(DriveReads(target, fail_at, fail_r), NoSnap, NoPayload, TransportExc(fail_r))
        ELSE IF (command = "ConvertToRAID" /\ p.check_mode /\ 0 < Count(pd_ready_state, "NonRAID"))
                \/ (command = "ConvertToNonRAID" /\ p.check_mode
                    /\ 0 < Count(pd_ready_state, "Ready"))
        THEN Done(rall, s, ExitChanged("CHANGES_FOUND", <<>>))
        ELSE IF (command = "ConvertToRAID" /\ p.check_mode
                 /\ Len(pd_ready_state) = Count(pd_ready_state, "Ready"))
                \/ (command = "ConvertToRAID" /\ ~p.check_mode
                    /\ Len(pd_ready_state) = Count(pd_ready_state, "Ready"))
                \/ (command = "ConvertToNonRAID" /\ p.check_mode
                    /\ Len(pd_ready_state) = Count(pd_ready_state, "NonRAID"))
                \/ (command = "ConvertToNonRAID" /\ ~p.check_mode
                    /\ Len(pd_ready_state) = Count(pd_ready_state, "NonRAID"))
        THEN Done(rall, s, Exit("NO_CHANGES_FOUND", <<>>))
        ELSE Submit(rall, s, pl, post_r)

ConvertRaidStatus ==
    /\ pc = "dispatch"
    /\ params.command \in {"ConvertToRAID", "ConvertToNonRAID"}
    /\ \E fail_at \in 0..Len(params.target), fail_r \in {"http", "url", "ssl"},
          pd_ready_state \in [1..Len(params.target) -> RaidStatuses],
          post_r \in PostResults :
          Complete(convert_raid_status(params, fail_at, fail_r, pd_ready_state, post_r))

----------------------------------------------------------------------------
(* target_identify_pattern, and what main() does with its response *)

BlinkResults == {"ok_200", "ok_other", "http", "url", "ssl"}

\* mutant: check mode honoured for a physical disk target only
blink_dry_run_target_only(p) == p.check_mode /\ p.target_given

\* if module.check_mode: module.exit_json(msg=CHANGES_FOUND, changed=True)
blink_dry_run(p) == p.check_mode

target_identify_pattern(p, post_r) ==
    IF (p.target_given /\ p.target = <<>>) \/ (~p.target_given /\ p.volume_id = <<>>)
    THEN Raise(<<>>, NoSnap, NoPayload, "IndexError")      \* target[0], volume[0]
    ELSE
    LET fqdd == IF p.target_given /\ ~p.volume_given THEN p.target[1]
                ELSE IF p.volume_given /\ ~p.target_given THEN p.volume_id[1]
                ELSE p.target[1]
        pl == [Payload(p.command) EXCEPT !.TargetFQDD = fqdd]
        sent == <<Req("POST", p.command, NoneId, fqdd, post_r)>>
    IN  IF blink_dry_run(p) THEN Done(<<>>, NoSnap, ExitChanged("CHANGES_FOUND", <<>>))
        ELSE IF post_r = "http" THEN Raise(sent, NoSnap, pl, "HTTPError")
        ELSE IF post_r \in Transport THEN Raise(sent, NoSnap, pl, TransportExc(post_r))
        ELSE IF post_r = "ok_200"
        THEN \* if resp.success and resp.status_code == 200: exit_json(JOB_COMPLETION)
             [Done(sent, NoSnap, ExitChanged("JOB_COMPLETION", <<p.command>>))
                EXCEPT !.payload = pl]
        ELSE \* main() goes on to JOB_URI_OEM.format(job_id=job_id): job_id is unbound
             Raise(sent, NoSnap, pl, "UnboundLocalError")

TargetIdentifyPattern ==
    /\ pc = "dispatch"
    /\ params.command \in {"BlinkTarget", "UnBlinkTarget"}
    /\ \E post_r \in BlinkResults : Complete(target_identify_pattern(params, post_r))

----------------------------------------------------------------------------
(* lock_virtual_disk *)

\* Links.Drives of the volume, in the order the remote system lists them
MemberLinks == <<DRIVE_0, DRIVE_1>>

\* mutant: EncryptionAbility of the members is not looked at
FirstStop_read_errors_only(seds, fail_at, i) ==
    IF fail_at \in i..Len(seds) THEN fail_at ELSE 0

\* the first member whose read raises or whose EncryptionAbility is not
\* SelfEncryptingDrive; 0 when the loop runs to its end
RECURSIVE FirstStop(_, _, _)
FirstStop(seds, fail_at, i) ==
    IF i > Len(seds) THEN 0
    ELSE IF fail_at = i \/ ~seds[i] THEN i
    ELSE FirstStop(seds, fail_at, i + 1)

LinkReads(n, last) ==
    [i \in 1..n |-> Req("GET", "DRIVE_LINK", ControllerIdOf(MemberLinks[i]), MemberLinks[i],
                        IF i = n THEN last ELSE "ok")]

\* seds[i]: member i is a SelfEncryptingDrive; fail_at = i: the read of member i raises fail_r
lock_virtual_disk(p, exists_r, get_r, seds, fail_at, fail_r, lock_status, post_r) ==
    IF p.volume_id = <<>> THEN Raise(<<>>, NoSnap, NoPayload, "IndexError")   \* volume[0]
    ELSE
    LET volume == p.volume_id
        controller_id == ControllerIdOf(volume[1])
        r1 == <<CheckIdRequest(controller_id, exists_r)>>
        r2 == Append(r1, Req("GET", "VOLUME_URI", controller_id, volume[1], get_r))
        stop == FirstStop(seds, fail_at, 1)
        s  == [NoSnap EXCEPT !.read = TRUE, !.lock_status = lock_status,
                             !.all_sed = \A i \in DOMAIN seds : seds[i]]
        pl == [Payload("LockVirtualDisk") EXCEPT !.TargetFQDD = volume[1]]
    IN  IF exists_r \in Transport THEN Raise(r1, NoSnap, NoPayload, TransportExc(exists_r))
        ELSE IF exists_r # "ok"
        THEN Done(r1, NoSnap, check_id_exists("controller_id", controller_id, exists_r))
        ELSE IF get_r = "http" THEN Done(r2, NoSnap, Fail("PD_ERROR_MSG", controller_id))
        ELSE IF get_r \in Transport THEN Raise(r2, NoSnap, NoPayload, TransportExc(get_r))
        ELSE IF stop > 0 /\ fail_at = stop
        THEN IF fail_r = "http"
             THEN Done(r2 \o LinkReads(stop, fail_r), NoSnap, Fail("PD_ERROR_MSG", controller_id))
             ELSE Raise(r2 \o LinkReads(stop, fail_r), NoSnap, NoPayload, TransportExc(fail_r))
        ELSE IF stop > 0
        THEN Done(r2 \o LinkReads(stop, "ok"), s, Fail("PHYSICAL_DISK_ERR", <<>>))
        ELSE LET r3 == r2 \o LinkReads(Len(seds), "ok")
             IN  IF lock_status = "Unlocked" /\ p.check_mode
                 THEN Done(r3, s, ExitChanged("CHANGES_FOUND", <<>>))
                 ELSE IF lock_status = "Locked"
                 THEN Done(r3, s, Exit("NO_CHANGES_FOUND", <<>>))
                 ELSE Submit(r3, s, pl, post_r)

LockVirtualDisk ==
    /\ pc = "dispatch"
    /\ params.command = "LockVirtualDisk"
    /\ \E exists_r \in ExistsResults, get_r \in GetResults,
          seds \in SeqsOver(BOOLEAN, Len(MemberLinks)),
          fail_r \in {"http", "url", "ssl"}, lock_status \in {"Locked", "Unlocked"},
          post_r \in PostResults :
       \E fail_at \in 0..Len(seds) :
          Complete(lock_virtual_disk(params, exists_r, get_r, seds, fail_at, fail_r,
                                        lock_status, post_r))

----------------------------------------------------------------------------
(* online_capacity_expansion *)

RaidTypes == {"RAID0", "RAID1", "RAID5", "RAID6", "RAID10", "RAID50", "RAID60"}

\* CapacityBytes of a 1000 MB volume, exact and with half a MB on top
Capacities == {1000 * BytesPerMB, 1000 * BytesPerMB + 524288}

online_capacity_expansion(p, get_r, raid_type, current_pd, capacity_bytes, post_r) ==
    LET volume_id == p.volume_id
        target == p.target
        size == p.size
    IN
    IF Len(volume_id) # 1 THEN Done(<<>>, NoSnap, ExitFailed("TARGET_ERR_MSG", <<"virtual drive">>))
    ELSE
    LET controller_id == ControllerIdOf(volume_id[1])
        r1 == <<Req("GET", "VOLUME_URI", controller_id, volume_id[1], get_r)>>
        s  == [NoSnap EXCEPT !.read = TRUE, !.raid_type = raid_type,
                             !.current_pd = current_pd, !.capacity_bytes = capacity_bytes]
        drives_to_add == SelectSeq2(target, current_pd)
        vd_size_MB == capacity_bytes \div BytesPerMB
        base == [Payload("OnlineCapacityExpansion") EXCEPT !.TargetFQDD = volume_id[1]]
        \* payload stays None when neither a target nor a non-zero size is given
        pl == IF p.target_given THEN [base EXCEPT !.PDArray = drives_to_add]
              ELSE IF size # -1 /\ size # 0 THEN [base EXCEPT !.Size = size]
              ELSE Payload("OnlineCapacityExpansion")
        sent == Append(r1, Req("POST", "OnlineCapacityExpansion", NoneId, pl.TargetFQDD, post_r))
        post == IF post_r = "http"
                THEN [Done(sent, s, ExitFailed("HTTP_ERROR_MESSAGE", <<>>)) EXCEPT !.payload = pl]
                ELSE Submit(r1, s, pl, post_r)
    IN  IF get_r = "http" THEN Done(r1, NoSnap, ExitFailed("VD_ERROR_MSG", volume_id[1]))
        ELSE IF get_r \in Transport THEN Raise(r1, NoSnap, NoPayload, TransportExc(get_r))
        ELSE IF raid_type \in {"RAID50", "RAID60"}
        THEN Done(r1, s, ExitFailed("OCE_RAID_TYPE_ERR", <<raid_type>>))
        ELSE IF p.target_given
        THEN IF target = <<>> THEN Done(r1, s, ExitFailed("OCE_TARGET_EMPTY", <<>>))
             ELSE IF raid_type = "RAID1" THEN Done(r1, s, Fail("OCE_TARGET_RAID1_ERR", <<>>))
             ELSE IF p.check_mode /\ drives_to_add # <<>>
                     /\ Len(drives_to_add) % OCE_MIN_PD_RAID_MAPPING[raid_type] = 0
             THEN Done(r1, s, ExitChanged("CHANGES_FOUND", <<>>))
             ELSE IF Len(drives_to_add) = 0
                     \/ Len(drives_to_add) % OCE_MIN_PD_RAID_MAPPING[raid_type] # 0
             THEN Done(r1, s, Exit("NO_CHANGES_FOUND", <<>>))
             ELSE post
        ELSE IF size # -1 /\ size # 0
        THEN IF (size - vd_size_MB) < OCE_MIN_DELTA_MB
             THEN Done(r1, s, ExitFailed("OCE_SIZE_100MB", <<>>))
             ELSE post
        ELSE post

OnlineCapacityExpansion ==
    /\ pc = "dispatch"
    /\ params.command = "OnlineCapacityExpansion"
    /\ \E get_r \in GetResults :
       \E raid_type \in Only(get_r = "ok", RaidTypes, "RAID0") :
       \E current_pd \in Only(get_r = "ok" /\ params.target_given, SUBSET DriveIds, {}) :
       \E capacity_bytes \in Only(get_r = "ok" /\ ~params.target_given, Capacities, 0) :
       \E post_r \in PostResults :
          Complete(online_capacity_expansion(params, get_r, raid_type, current_pd,
                                             capacity_bytes, post_r))

----------------------------------------------------------------------------
(* validate_secure_erase and secure_erase *)

\* the reads of secure_erase, in order: the systems collection, the system (Storage
\* link), the storage collection (Members), the controller (Drives), the drive, the
\* manager (firmware version), the job collection, the drive again (Actions)
SecureEraseReads ==
    <<"SYSTEMS_URI", "SYSTEM", "STORAGE", "CONTROLLER", "DRIVE", "FIRMWARE", "JOBS", "ACTIONS">>

\* the first n reads; fail_at = i: read i raises fail_r
EraseReads(p, n, fail_at, fail_r) ==
    [i \in 1..n |-> Req("GET", SecureEraseReads[i], p.controller_id, p.target[1],
                        IF i = fail_at THEN fail_r ELSE "ok")]

\* mutant: the capability of the drive is not looked at
drive_checks_ready_only(d, drive_id) ==
    IF d.firm_3 /\ d.drive_ready # "Ready"
    THEN ExitSkipped("DRIVE_NOT_READY", drive_id)
    ELSE NoOutcome

\* validate_secure_erase, the checks of the drive under LooseVersion(firm_ver) >= '3.0':
\* the outcome they exit with, or NoOutcome
drive_checks(d, drive_id) ==
    IF d.firm_3 /\ d.drive_ready # "Ready"
    THEN ExitSkipped("DRIVE_NOT_READY", drive_id)
    ELSE IF d.firm_3 /\ ~d.capable
    THEN ExitSkipped("DRIVE_NOT_SECURE_ERASE", drive_id)
    ELSE NoOutcome

\* mutant: a scheduled job does not stop the submission
job_exists_ignored(d) == FALSE

\* secure_erase: if scheduled_job
job_exists(d) == d.scheduled_job

\* d: what the remote system holds: [sys_ok, controller_found, drive_found, firm_3,
\* drive_ready, capable, scheduled_job]
secure_erase(p, d, fail_at, fail_r, post_r) ==
    IF p.target = <<>> THEN Raise(<<>>, NoSnap, NoPayload, "IndexError")   \* drive[0]
    ELSE
    LET drive_id == p.target[1]
        controller_id == p.controller_id
        Reads(n) == EraseReads(p, n, fail_at, fail_r)
        Failed(n) == fail_at > 0 /\ fail_at <= n
        Broken == Raise(Reads(fail_at), NoSnap, NoPayload,
                        IF fail_r = "http" THEN "HTTPError" ELSE TransportExc(fail_r))
        s  == [NoSnap EXCEPT !.read = TRUE, !.drive_ready = d.drive_ready,
                             !.erase_capable = d.capable, !.scheduled_job = d.scheduled_job,
                             !.firm_3 = d.firm_3]
        pl == [Payload("SecureErase") EXCEPT !.TargetFQDD = drive_id]
    IN  IF Failed(1) THEN Broken
        ELSE IF ~d.sys_ok THEN Done(Reads(1), NoSnap, ExitFailed("SYSTEM_ID_ERR", <<>>))
        ELSE IF Failed(3) THEN Broken
        ELSE IF ~d.controller_found
        THEN Done(Reads(3), NoSnap, ExitFailed("CNTRL_ERROR_MSG", controller_id))
        ELSE IF Failed(4) THEN Broken
        ELSE IF ~d.drive_found
        THEN \* module.exit_json(msg=PD_ERROR_MSG.format(drive_id, failed=True))
             Done(Reads(4), NoSnap, Exit("PD_ERROR_MSG", drive_id))
        ELSE IF Failed(6) THEN Broken
        ELSE IF drive_checks(d, drive_id).kind # "none"
        THEN Done(Reads(6), s, drive_checks(d, drive_id))
        ELSE IF Failed(7) THEN Broken
        ELSE IF job_exists(d) THEN Done(Reads(7), s, Exit("JOB_EXISTS", <<>>))
        ELSE IF Failed(8) THEN Broken
        ELSE Submit(Reads(8), s, pl, post_r)

\* what the remote system holds; a field the code does not get to read is left at
\* one value
DriveStates ==
    {d \in [sys_ok : BOOLEAN, controller_found : BOOLEAN, drive_found : BOOLEAN,
            firm_3 : BOOLEAN, drive_ready : RaidStatuses, capable : BOOLEAN,
            scheduled_job : BOOLEAN] :
        /\ ~d.sys_ok => d.controller_found
        /\ ~(d.sys_ok /\ d.controller_found) => d.drive_found
        /\ ~(d.sys_ok /\ d.controller_found /\ d.drive_found) =>
                d.firm_3 /\ d.drive_ready = "Ready" /\ d.capable /\ ~d.scheduled_job
        /\ (d.firm_3 /\ d.drive_ready # "Ready") => d.capable
        /\ (d.firm_3 /\ (d.drive_ready # "Ready" \/ ~d.capable)) => ~d.scheduled_job}

\* does secure_erase get to its POST when no read fails?
erase_submits(d) ==
    /\ d.sys_ok /\ d.controller_found /\ d.drive_found
    /\ d.firm_3 => (d.drive_ready = "Ready" /\ d.capable)
    /\ ~d.scheduled_job

SecureErase ==
    /\ pc = "dispatch"
    /\ params.command = "SecureErase"
    /\ \E d \in DriveStates, fail_at \in 0..Len(SecureEraseReads) :
       \E fail_r \in Only(fail_at > 0, {"http", "url", "ssl"}, "http") :
       \E post_r \in Only(fail_at = 0 /\ erase_submits(d), PostResults, "ok") :
          Complete(secure_erase(params, d, fail_at, fail_r, post_r))

----------------------------------------------------------------------------
(* The attributes path: set_attributes and the functions it calls *)

\* Oem.Dell.DellStorageController of the controller
CurrAttrs == [ControllerMode : {"RAID", "HBA"}, CopybackMode : {"On", "Off"}]
CurrKeys == {"ControllerMode", "CopybackMode"}

\* @Redfish.Settings.SupportedApplyTimes of the controller
SupportedApplyTimeSets ==
    {{}, {"Immediate", "OnReset"}, {"OnReset", "AtMaintenanceWindowStart"}, ApplyTimes}

\* DateTime and DateTimeLocalOffset of the manager; ok = FALSE: the read raised
Clocks ==
    {[ok |-> TRUE, curr_time |-> <<1, "-05:00">>, date_offset |-> "-05:00"],
     [ok |-> FALSE, curr_time |-> NoTime, date_offset |-> ""]}

\* order of the offset texts as Python compares strings ('+' sorts before '-')
OffsetRank(off) == IF off = "" THEN 0 ELSE IF off = "+05:30" THEN 1 ELSE 2

\* mtime < curr_time on the texts "YYYY-MM-DDThh:mm:ss<offset>"
TimeLess(a, b) == a[1] < b[1] \/ (a[1] = b[1] /\ OffsetRank(a[2]) < OffsetRank(b[2]))

\* mtime.endswith(date_offset)
EndsWith(mtime, date_offset) == mtime[2] = date_offset

\* mutant: the loop stops at the first invalid name
invalid_attr_first(names) ==
    LET all == SelectSeq(AttrOrder, LAMBDA n : n \in names /\ n \notin CurrKeys)
    IN  IF all = <<>> THEN <<>> ELSE <<all[1]>>

\* the names check_attr_exists collects in invalid_attr, in the order of inp_attr
invalid_attr(names) ==
    SelectSeq(AttrOrder, LAMBDA n : n \in names /\ n \notin CurrKeys)

\* pending_attr of check_attr_exists, as a set of <<name, value>>
pending_attr(names, val, curr) ==
    {<<n, val[n]>> : n \in {m \in names \cap CurrKeys : curr[m] # val[m]}}

\* mutant: an empty diff ends the invocation in check mode only
check_attr_exists_dry_only(p, curr) ==
    IF invalid_attr(p.attr_names) # <<>>
    THEN ExitFailed("INVALID_ATTRIBUTES", invalid_attr(p.attr_names))
    ELSE IF pending_attr(p.attr_names, p.attr_val, curr) # {} /\ p.check_mode
    THEN ExitChanged("CHANGES_FOUND", <<>>)
    ELSE IF pending_attr(p.attr_names, p.attr_val, curr) = {} /\ p.check_mode
    THEN Exit("NO_CHANGES_FOUND", <<>>)
    ELSE NoOutcome

\* the outcome check_attr_exists exits with, or NoOutcome when it returns pending_attr
check_attr_exists(p, curr) ==
    IF invalid_attr(p.attr_names) # <<>>
    THEN ExitFailed("INVALID_ATTRIBUTES", invalid_attr(p.attr_names))
    ELSE IF pending_attr(p.attr_names, p.attr_val, curr) # {} /\ p.check_mode
    THEN ExitChanged("CHANGES_FOUND", <<>>)
    ELSE IF pending_attr(p.attr_names, p.attr_val, curr) = {}
    THEN Exit("NO_CHANGES_FOUND", <<>>)
    ELSE NoOutcome

\* mutant: the length test is off by one
hba_mode_conflict_off_by_one(p) ==
    /\ "ControllerMode" \in p.attr_names
    /\ p.attr_val["ControllerMode"] # ""
    /\ Cardinality(p.attr_names) > 2

\* inp_attr.get("ControllerMode") and len(inp_attr.keys()) > 1
hba_mode_conflict(p) ==
    /\ "ControllerMode" \in p.attr_names
    /\ p.attr_val["ControllerMode"] # ""
    /\ Cardinality(p.attr_names) > 1

\* does get_redfish_apply_time read the manager clock (validate_time)?
reads_clock(p, time_settings) ==
    /\ time_settings # {}
    /\ p.apply_time \in {"AtMaintenanceWindowStart", "InMaintenanceWindowOnReset"}
    /\ p.apply_time \in time_settings

\* validate_time: the outcome it exits with, "TypeError" as msg id when
\* mtime.endswith(None) raises, NoOutcome when the time is accepted
validate_time(mtime, clock) ==
    IF ~clock.ok THEN [NoOutcome EXCEPT !.kind = "exception", !.msg = Msg("TypeError", <<>>)]
    ELSE IF ~EndsWith(mtime, clock.date_offset)
    THEN ExitFailedStatusMsg("MAINTENANCE_OFFSET", <<clock.date_offset>>)
    ELSE IF TimeLess(mtime, clock.curr_time)
    THEN ExitFailedStatusMsg("MAINTENANCE_TIME", <<>>)
    ELSE NoOutcome

\* get_redfish_apply_time: the outcome it exits with, or NoOutcome when it returns time_set
get_redfish_apply_time(p, time_settings, clock) ==
    IF time_settings # {}
    THEN IF p.apply_time \in {"AtMaintenanceWindowStart", "InMaintenanceWindowOnReset"}
         THEN IF p.apply_time \notin time_settings
              THEN ExitFailedStatusMsg("UNSUPPORTED_APPLY_TIME", <<p.apply_time>>)
              ELSE validate_time(p.mw_start, clock)
         ELSE NoOutcome
    ELSE NoOutcome

\* time_set["ApplyTime"] as get_redfish_apply_time returns it; "" stands for time_set = {}
time_set_of(p, time_settings) == IF time_settings # {} THEN p.apply_time ELSE ""

PatchResults == {"ok", "error_body", "no_location", "http", "url", "ssl"}

\* mutant: the PATCH is sent before the apply time is validated
apply_time_requests_patch_first(p, reqs, time_settings, clock) ==
    LET sent == Append(reqs, Req("PATCH", "SETTINGS_URI", p.controller_id, p.controller_id, "ok"))
    IN  IF reads_clock(p, time_settings)
        THEN Append(sent, Req("GET", "MANAGER_URI", NoneId, NoneId,
                              IF clock.ok THEN "ok" ELSE "url"))
        ELSE sent

\* the requests apply_attributes has sent when get_redfish_apply_time returns or exits:
\* the read of the manager clock, if validate_time was called
apply_time_requests(p, reqs, time_settings, clock) ==
    IF reads_clock(p, time_settings)
    THEN Append(reqs, Req("GET", "MANAGER_URI", NoneId, NoneId,
                          IF clock.ok THEN "ok" ELSE "url"))
    ELSE reqs

\* apply_attributes: the PATCH and what follows it
apply_attributes(p, reqs, s, pending, time_settings, clock, patch_r) ==
    LET time_out == get_redfish_apply_time(p, time_settings, clock)
        r1 == apply_time_requests(p, reqs, time_settings, clock)
        time_set == time_set_of(p, time_settings)
        s2 == IF reads_clock(p, time_settings)
              THEN [s EXCEPT !.time_settings = time_settings,
                             !.curr_time = clock.curr_time, !.date_offset = clock.date_offset]
              ELSE [s EXCEPT !.time_settings = time_settings]
        pl == [Payload("Settings") EXCEPT !.TargetFQDD = p.controller_id,
                                          !.Attributes = pending, !.ApplyTime = time_set]
        sent == Append(r1, Req("PATCH", "SETTINGS_URI", p.controller_id, p.controller_id, patch_r))
    IN  IF time_out.kind = "exception" THEN Raise(r1, s2, NoPayload, time_out.msg.id)
        ELSE IF time_out.kind # "none" THEN Done(r1, s2, time_out)
        ELSE IF patch_r \in {"error_body", "http"}
        THEN [Done(sent, s2, [ExitFailed("ERR_MSG", <<>>) EXCEPT !.error_info = TRUE])
                EXCEPT !.payload = pl]
        ELSE IF patch_r \in Transport THEN Raise(sent, s2, pl, TransportExc(patch_r))
        ELSE IF patch_r = "no_location" THEN Raise(sent, s2, pl, "KeyError")
        ELSE \* main(): time_set["ApplyTime"] raises KeyError when time_set is empty
             IF time_set = "" THEN Raise(sent, s2, pl, "KeyError")
             ELSE [Ret(sent, s2, pl, JobLocation) EXCEPT !.time_set = time_set]

\* set_attributes, after main() has checked controller_id
set_attributes(p, exists_r, get_r, curr, time_settings, clock, patch_r) ==
    LET controller_id == p.controller_id
        r1 == <<CheckIdRequest(controller_id, exists_r)>>
        r2 == Append(r1, Req("GET", "CONTROLLERS_URI", controller_id, controller_id, get_r))
        s  == [NoSnap EXCEPT !.read = TRUE, !.curr_attr = curr]
        checked == check_attr_exists(p, curr)
    IN  IF controller_id = NoneId
        THEN Done(<<>>, NoSnap, ExitFailed("CONTROLLER_ID_REQUIRED", <<>>))
        ELSE IF exists_r \in Transport THEN Raise(r1, NoSnap, NoPayload, TransportExc(exists_r))
        ELSE IF exists_r # "ok"
        THEN Done(r1, NoSnap, check_id_exists("controller_id", controller_id, exists_r))
        ELSE IF get_r = "http" THEN Raise(r2, NoSnap, NoPayload, "AttributeError")
        ELSE IF get_r \in Transport THEN Raise(r2, NoSnap, NoPayload, TransportExc(get_r))
        ELSE IF hba_mode_conflict(p) THEN Done(r2, s, ExitFailed("HBA_MODE", <<>>))
        ELSE IF checked.kind # "none" THEN Done(r2, s, checked)
        ELSE apply_attributes(p, r2, s, pending_attr(p.attr_names, p.attr_val, curr),
                              time_settings, clock, patch_r)

\* main(): the attributes branch up to the job handle. An input the code does not
\* get to read is left at one value.
SetAttributes ==
    /\ pc = "dispatch"
    /\ params.attr_names # {}
    /\ \E exists_r \in ExistsResults :
       \E get_r \in Only(exists_r = "ok" /\ params.controller_id # NoneId, GetResults, "ok") :
       \E curr \in Only(exists_r = "ok" /\ get_r = "ok", CurrAttrs,
                        [ControllerMode |-> "RAID", CopybackMode |-> "On"]) :
       LET applies == /\ exists_r = "ok" /\ get_r = "ok" /\ params.controller_id # NoneId
                      /\ ~hba_mode_conflict(params)
                      /\ check_attr_exists(params, curr).kind = "none"
       IN
       \E time_settings \in Only(applies, SupportedApplyTimeSets, {}) :
       \E clock \in Only(applies /\ reads_clock(params, time_settings), Clocks,
                         [ok |-> FALSE, curr_time |-> NoTime, date_offset |-> ""]) :
       \E patch_r \in Only(applies
                           /\ get_redfish_apply_time(params, time_settings, clock).kind = "none",
                           PatchResults, "ok") :
          Complete(set_attributes(params, exists_r, get_r, curr, time_settings, clock, patch_r))

----------------------------------------------------------------------------
(* The job: the remote system runs it, main() reads it *)

JobStates == {"New", "Scheduled", "Running", "Completed", "Failed"}

JobMessage(state) ==
    IF state = "Completed" THEN "Job completed successfully."
    ELSE IF state = "Failed" THEN "Job failed."
    ELSE "Job in progress."

\* the job resource as the remote system returns it
JobResponse(state) == [JobState |-> state, Message |-> JobMessage(state)]

\* the remote system moves the job on; main() has no part in it
JobAdvance ==
    /\ pc = "job"
    /\ \/ jobState = "New" /\ jobState' = "Scheduled"
       \/ jobState = "Scheduled" /\ jobState' = "Running"
       \/ jobState = "Running" /\ jobState' = "Completed"
       \/ jobState \in {"New", "Scheduled", "Running"} /\ jobState' = "Failed"
    /\ UNCHANGED <<first, conc, ome, params, pc, requests, payload, snap, job, budget, lastResp, outcome>>

\* wait_for_job_completion stops polling at these states
job_is_terminal(state) == state \in {"Completed", "Failed"}

\* what wait_for_job_completion hands back as resp when the budget is used up: the
\* last response it read, or no response at all
TimeoutReturns == {"last_resp", "empty"}

\* mutant: job_wait alone decides, whatever the apply time
waits_for_job_any_apply_time(p, j) == p.job_wait

\* main(): does it call wait_for_job_completion with job_wait=True?
waits_for_job(p, j) ==
    IF p.attr_names # {}
    THEN j.time_set = "Immediate" /\ p.job_wait
    ELSE p.job_wait

Task(j) == [id |-> j.id, uri |-> j.uri]

\* mutant: a failed job is reported failed and changed
job_completion_outcome_failed_and_changed(p, j, job_data) ==
    LET failed == IF job_data.JobState = "Failed" THEN TRUE ELSE FALSE
        id == IF p.attr_names # {} THEN "JOB_COMPLETION_ATTRIBUTES" ELSE "JOB_COMPLETION"
        arg == IF p.attr_names # {} THEN <<>> ELSE <<p.command>>
    IN  [Exit(id, arg) EXCEPT !.task = Task(j), !.status = job_data,
                              !.changed = TRUE, !.failed = failed]

\* mutant: the job's state is not looked at
job_completion_outcome_always_ok(p, j, job_data) ==
    LET id == IF p.attr_names # {} THEN "JOB_COMPLETION_ATTRIBUTES" ELSE "JOB_COMPLETION"
        arg == IF p.attr_names # {} THEN <<>> ELSE <<p.command>>
    IN  [Exit(id, arg) EXCEPT !.task = Task(j), !.status = job_data, !.changed = TRUE]

\* main(): the exit_json after wait_for_job_completion(job_wait=True) returned resp
job_completion_outcome(p, j, job_data) ==
    LET changed == IF job_data.JobState = "Failed" THEN FALSE ELSE TRUE
        failed == IF job_data.JobState = "Failed" THEN TRUE ELSE FALSE
        id == IF p.attr_names # {} THEN "JOB_COMPLETION_ATTRIBUTES" ELSE "JOB_COMPLETION"
        arg == IF p.attr_names # {} THEN <<>> ELSE <<p.command>>
    IN  [Exit(id, arg) EXCEPT !.task = Task(j), !.status = job_data,
                              !.changed = changed, !.failed = failed]

\* main(): the exit_json after wait_for_job_completion(job_wait=False) returned resp
job_submission_outcome(p, j, job_data) ==
    LET id == IF p.attr_names # {} THEN "JOB_SUBMISSION_ATTRIBUTES" ELSE "JOB_SUBMISSION"
        arg == IF p.attr_names # {} THEN <<>> ELSE <<p.command>>
    IN  [Exit(id, arg) EXCEPT !.task = Task(j), !.status = job_data]

JobRead(j, r) == Req("GET", "JOB_URI_OEM", NoneId, <<j.id>>, r)

\* wait_for_job_completion(job_wait=False) and the exit that follows it
ReadJobOnce ==
    /\ pc = "job"
    /\ ~waits_for_job(params, job)
    /\ \E get_r \in GetResults :
          /\ requests' = Append(requests, JobRead(job, get_r))
          /\ IF get_r = "ok"
             THEN /\ lastResp' = JobResponse(jobState)
                  /\ outcome' = job_submission_outcome(params, job, JobResponse(jobState))
             ELSE /\ lastResp' = lastResp
                  /\ outcome' = MainExcept(IF get_r = "http" THEN "HTTPError" ELSE TransportExc(get_r))
    /\ pc' = "done"
    /\ UNCHANGED <<first, conc, ome, params, payload, snap, job, jobState, budget>>

\* one round of wait_for_job_completion(job_wait=True): read the job; stop when it is
\* terminal or when the budget is used up; and the exit that follows in main()
PollJob ==
    /\ pc = "job"
    /\ waits_for_job(params, job)
    /\ budget > 0
    /\ \E get_r \in GetResults, ret \in TimeoutReturns :
          /\ requests' = Append(requests, JobRead(job, get_r))
          /\ IF get_r # "ok"
             THEN /\ outcome' = MainExcept(IF get_r = "http" THEN "HTTPError" ELSE TransportExc(get_r))
                  /\ pc' = "done"
                  /\ UNCHANGED <<budget, lastResp>>
             ELSE IF job_is_terminal(jobState)
             THEN /\ outcome' = job_completion_outcome(params, job, JobResponse(jobState))
                  /\ pc' = "done"
                  /\ lastResp' = JobResponse(jobState)
                  /\ budget' = budget
             ELSE IF budget = 1
             THEN /\ lastResp' = JobResponse(jobState)
                  /\ budget' = 0
                  /\ pc' = "done"
                  /\ outcome' = IF ret = "last_resp"
                                THEN job_completion_outcome(params, job, JobResponse(jobState))
                                ELSE MainExcept("AttributeError")   \* resp.json_data
             ELSE /\ lastResp' = JobResponse(jobState)
                  /\ budget' = budget - 1
                  /\ UNCHANGED <<pc, outcome>>
    /\ UNCHANGED <<first, conc, ome, params, payload, snap, job, jobState>>

----------------------------------------------------------------------------

Next ==
    \/ ValidateInputs
    \/ CtrlResetConfig
    \/ CtrlKey
    \/ HotSpareConfig
    \/ ChangePdStatus
    \/ ConvertRaidStatus
    \/ TargetIdentifyPattern
    \/ LockVirtualDisk
    \/ OnlineCapacityExpansion
    \/ SecureErase
    \/ SetAttributes
    \/ JobAdvance
    \/ ReadJobOnce
    \/ PollJob

Spec == Init /\ [][Next]_vars

----------------------------------------------------------------------------
(* State functions the properties are written with *)

Finished == pc = "done"

\* the mutating requests (action POST, SecureErase POST, settings PATCH) sent so far
MutatingRequests == SelectSeq(requests, Mutating)
NumMutating == Len(MutatingRequests)

\* the job reads sent so far
NumJobReads == Len(SelectSeq(requests, LAMBDA r : r.uri = "JOB_URI_OEM"))

ChangesFoundOutcome == outcome = ExitChanged("CHANGES_FOUND", <<>>)
NoChangesFoundOutcome == outcome = Exit("NO_CHANGES_FOUND", <<>>)

\* the target and volume_id lists hold one identifier each
OneTarget ==
    /\ params.target_given => Len(params.target) = 1
    /\ params.volume_given => Len(params.volume_id) = 1

DrivesToAdd == SelectSeq2(params.target, snap.current_pd)

OceByTarget == params.command = "OnlineCapacityExpansion" /\ params.target_given
OceBySize == params.command = "OnlineCapacityExpansion" /\ ~params.target_given

PdTargetState ==
    IF params.command \in {"ConvertToRAID"} THEN "Ready"
    ELSE IF params.command = "ConvertToNonRAID" THEN "NonRAID"
    ELSE IF params.command = "ChangePDStateToOnline" THEN "Online"
    ELSE "Offline"

\* the snapshot was read, passed the command's own validation, and is not at the
\* target state of the command
NotAtTarget ==
    LET c == params.command
    IN  IF c \in {"BlinkTarget", "UnBlinkTarget"} THEN OneTarget
        ELSE snap.read /\
             CASE c = "SetControllerKey" ->
                    snap.security_status # "EncryptionNotCapable" /\ ~snap.key_id
               [] c = "RemoveControllerKey" -> snap.key_id
               [] c = "EnableControllerEncryption" ->
                    snap.security_status = "EncryptionCapable"
               [] c = "ReKey" -> snap.security_status # "EncryptionNotCapable"
               [] c = "AssignSpare" -> snap.hot_spare = "None"
               [] c = "UnassignSpare" -> snap.hot_spare # "None"
               [] c \in {"ConvertToRAID", "ConvertToNonRAID", "ChangePDStateToOnline",
                         "ChangePDStateToOffline"} ->
                    \E i \in DOMAIN snap.raid_status : snap.raid_status[i] # PdTargetState
               [] c = "LockVirtualDisk" -> snap.lock_status = "Unlocked" /\ snap.all_sed
               [] c = "ResetConfig" -> snap.members
               [] OceByTarget ->
                    /\ snap.raid_type \in DOMAIN OCE_MIN_PD_RAID_MAPPING
                    /\ DrivesToAdd # <<>>
                    /\ Len(DrivesToAdd) % OCE_MIN_PD_RAID_MAPPING[snap.raid_type] = 0
               [] OceBySize ->
                    /\ snap.raid_type \notin {"RAID50", "RAID60"}
                    /\ params.size > 0
                    /\ params.size - (snap.capacity_bytes \div BytesPerMB) >= OCE_MIN_DELTA_MB
               [] c = "SecureErase" ->
                    snap.drive_ready = "Ready" /\ snap.erase_capable /\ ~snap.scheduled_job
               [] OTHER -> FALSE

NoOpCapable ==
    {"SetControllerKey", "RemoveControllerKey", "EnableControllerEncryption", "AssignSpare",
     "UnassignSpare", "ConvertToRAID", "ConvertToNonRAID", "ChangePDStateToOnline",
     "ChangePDStateToOffline", "LockVirtualDisk", "ResetConfig"}

\* the snapshot was read and is at the target state of the command
AtTarget ==
    LET c == params.command
    IN  snap.read /\
        CASE c = "SetControllerKey" -> snap.key_id
          [] c = "RemoveControllerKey" -> ~snap.key_id
          [] c = "EnableControllerEncryption" -> snap.security_status = "SecurityKeyAssigned"
          [] c = "AssignSpare" -> snap.hot_spare \in {"Dedicated", "Global"}
          [] c = "UnassignSpare" -> snap.hot_spare = "None"
          [] c \in {"ConvertToRAID", "ConvertToNonRAID", "ChangePDStateToOnline",
                    "ChangePDStateToOffline"} ->
               \A i \in DOMAIN snap.raid_status : snap.raid_status[i] = PdTargetState
          [] c = "LockVirtualDisk" -> snap.lock_status = "Locked"
          [] c = "ResetConfig" -> ~snap.members
          [] OceByTarget ->
               /\ params.target # <<>>
               /\ \/ DrivesToAdd = <<>>
                  \/ /\ snap.raid_type \in DOMAIN OCE_MIN_PD_RAID_MAPPING
                     /\ Len(DrivesToAdd) % OCE_MIN_PD_RAID_MAPPING[snap.raid_type] # 0
          [] OTHER -> FALSE

\* the command's own validation of the snapshot passes: the controller can encrypt
\* (key commands), the volume's members are all self-encrypting (lock), the volume's
\* RAID type can be expanded by drives (expansion)
SnapshotAccepted ==
    /\ params.command \in {"SetControllerKey", "RemoveControllerKey",
                           "EnableControllerEncryption", "ReKey"}
         => snap.security_status # "EncryptionNotCapable"
    /\ params.command = "LockVirtualDisk" => snap.all_sed
    /\ OceByTarget => snap.raid_type \in DOMAIN OCE_MIN_PD_RAID_MAPPING

----------------------------------------------------------------------------
(* C1 *)

\* C1: for each of the sixteen commands, when check mode is on and the snapshot read
\* is not at the command's target state, the invocation sends no mutating request and
\* ends with "Changes found to be applied." and changed = true.
C1_DryRunReportsChangesWithoutSubmitting ==
    (params.check_mode /\ params.command \in Commands /\ NotAtTarget)
        => /\ NumMutating = 0
           /\ Finished => ChangesFoundOutcome

----------------------------------------------------------------------------
(* C2 *)

\* C2 as stated: for every NoOp-capable command, when the snapshot is at the target
\* state, the invocation (check mode on or off) sends no mutating request and ends
\* with "No changes found to be applied." and changed = false.
C2_AtTargetReportsNoChanges ==
    (Finished /\ (params.command \in NoOpCapable \/ OceByTarget) /\ AtTarget)
        => NumMutating = 0 /\ NoChangesFoundOutcome

\* C2 as amended: the same, for snapshots that pass the command's own validation
\* (the controller is not EncryptionNotCapable; the members of the volume to lock are
\* all self-encrypting; the volume to expand is RAID0, RAID5, RAID6 or RAID10).
C2_AcceptedAtTargetReportsNoChanges ==
    (Finished /\ (params.command \in NoOpCapable \/ OceByTarget) /\ AtTarget
        /\ SnapshotAccepted)
        => NumMutating = 0 /\ NoChangesFoundOutcome

\* a real run of ChangePDStateToOnline on a drive that is Online already
C2_Witness ==
    /\ Finished /\ ~params.check_mode
    /\ params.command = "ChangePDStateToOnline"
    /\ AtTarget /\ snap.raid_status = <<"Online">>
    /\ NoChangesFoundOutcome

----------------------------------------------------------------------------
(* C3 *)

\* C3: in one invocation at most one mutating request is sent, and a rejected one is
\* not sent again.
C3_AtMostOneMutatingRequest == NumMutating <= 1

\* an action POST was rejected with an HTTP error and the invocation has ended
C3_Witness ==
    /\ Finished
    /\ NumMutating = 1
    /\ MutatingRequests[1].result = "http"
    /\ outcome.failed

----------------------------------------------------------------------------
(* C4 *)

AlwaysMutating == {"ReKey", "BlinkTarget", "UnBlinkTarget"}

\* the invocation got to the command's decision: the blink target is one identifier,
\* the controller of ReKey was read
Decided ==
    IF params.command = "ReKey" THEN snap.read ELSE OneTarget

----------------------------------------------------------------------------
(* C5 *)

\* the invocation waited for the job and the budget ran out before the job was seen
\* Completed or Failed
WaitTimedOut ==
    /\ Finished
    /\ job # NoJob
    /\ waits_for_job(params, job)
    /\ budget = 0
    /\ ~job_is_terminal(lastResp.JobState)

\* the outcome of a wait that saw the job complete
IsSuccessOutcome ==
    /\ outcome.msg.id \in {"JOB_COMPLETION", "JOB_COMPLETION_ATTRIBUTES"}
    /\ outcome.changed /\ ~outcome.failed

\* the outcome of a wait that saw the job fail
IsJobFailedOutcome ==
    /\ outcome.msg.id \in {"JOB_COMPLETION", "JOB_COMPLETION_ATTRIBUTES"}
    /\ outcome.failed /\ ~outcome.changed

\* C5: when job_wait is requested and the job is neither Completed nor Failed when the
\* job_wait_timeout budget is used up, the invocation ends with a wait-timeout outcome
\* that is neither the success outcome nor the job-failed outcome and that carries
\* the job handle (id and uri).
C5_TimeoutOutcomeCarriesJobHandle ==
    WaitTimedOut => /\ ~IsSuccessOutcome
                    /\ ~IsJobFailedOutcome
                    /\ outcome.task = Task(job)

----------------------------------------------------------------------------
(* C6 *)

\* a read of the job succeeded and showed it Completed or Failed
ObservedTerminal == Finished /\ job # NoJob /\ job_is_terminal(lastResp.JobState)

JobReportedAsObserved ==
    IF lastResp.JobState = "Failed"
    THEN /\ outcome.failed /\ ~outcome.changed
         /\ outcome.status.Message = "Job failed."
    ELSE outcome.changed /\ ~outcome.failed

\* C6 as stated: when job_wait is requested and the job is observed in a terminal
\* state, Failed gives failed = true, changed = false and the job's message, Completed
\* gives changed = true, failed = false; on the command path and the attributes path.
C6_TerminalJobDecidesOutcome ==
    (params.job_wait /\ ObservedTerminal) => JobReportedAsObserved

\* C6 as amended: the same, on the attributes path only when the apply time sent is
\* Immediate (for the other apply times main() does not wait).
C6_TerminalJobDecidesOutcomeWhenWaiting ==
    (params.job_wait /\ ObservedTerminal
        /\ (params.attr_names # {} => job.time_set = "Immediate"))
        => JobReportedAsObserved

\* the attributes path waited and saw the job fail
C6_Witness ==
    /\ ObservedTerminal /\ params.job_wait /\ params.attr_names # {}
    /\ lastResp.JobState = "Failed"
    /\ outcome.failed /\ outcome.task = Task(job)

----------------------------------------------------------------------------
(* C7 *)

\* the mutating request was accepted and answered with a job location
SubmissionAccepted == NumMutating = 1 /\ MutatingRequests[1].result = "ok"

JobReadsOk ==
    \A i \in DOMAIN requests : requests[i].uri = "JOB_URI_OEM" => requests[i].result = "ok"

\* C7: when job_wait is false, after a successful submission the invocation reads the
\* job once and ends with the "Successfully submitted the job" outcome that carries the
\* job handle and that one status, whatever JobState it shows.
C7_NoWaitReadsJobOnce ==
    (~params.job_wait /\ Finished /\ SubmissionAccepted /\ JobReadsOk)
        => /\ NumJobReads = 1
           /\ outcome.msg.id \in {"JOB_SUBMISSION", "JOB_SUBMISSION_ATTRIBUTES"}
           /\ outcome.task = Task(job) /\ job # NoJob
           /\ outcome.status = lastResp

----------------------------------------------------------------------------
(* C8 *)

ValidationErrors ==
    {"INVALID_ATTRIBUTES", "HBA_MODE", "UNSUPPORTED_APPLY_TIME", "MAINTENANCE_OFFSET",
     "MAINTENANCE_TIME"}

\* C8: on the attributes path an invocation that ends in the invalid-attribute, the
\* ControllerMode-conflict, the unsupported-apply-time, the maintenance-window-offset
\* or the maintenance-window-in-the-past error has sent no PATCH and no other mutating
\* request.
C8_ValidationErrorsBeforePatch ==
    (Finished /\ params.attr_names # {}
        /\ (outcome.msg.id \in ValidationErrors \/ outcome.status_msg.id \in ValidationErrors))
        => NumMutating = 0

\* a maintenance window that starts in the past was refused after the clock was read
C8_Witness ==
    /\ Finished /\ params.attr_names # {}
    /\ outcome = ExitFailedStatusMsg("MAINTENANCE_TIME", <<>>)
    /\ \E i \in DOMAIN requests : requests[i].uri = "MANAGER_URI"

----------------------------------------------------------------------------
(* C9 *)

\* the requested names the controller's attribute map does not hold
AbsentNames == {n \in params.attr_names : n \notin DOMAIN snap.curr_attr}

AllAbsentNamesReported ==
    /\ outcome.kind = "exit_json" /\ outcome.failed
    /\ outcome.msg.id = "INVALID_ATTRIBUTES"
    /\ Range(outcome.msg.arg) = AbsentNames
    /\ Len(outcome.msg.arg) = Cardinality(AbsentNames)

\* C9 as stated: on the attributes path, if requested names are absent from the current
\* attribute map, the invocation fails with one invalid-attributes error listing every
\* absent name, whatever else is requested and whether check mode is on or off.
C9_AbsentNamesAllReported ==
    (Finished /\ params.attr_names # {} /\ snap.read /\ AbsentNames # {})
        => AllAbsentNamesReported

\* ControllerMode is requested with a non-empty value together with other names
ControllerModeWithOthers ==
    /\ "ControllerMode" \in params.attr_names
    /\ params.attr_val["ControllerMode"] # ""
    /\ params.attr_names # {"ControllerMode"}

\* C9 as amended: the same, unless ControllerMode is requested with a non-empty value
\* together with other names: then the ControllerMode-conflict error is reported.
C9_AbsentNamesAllReportedUnlessConflict ==
    (Finished /\ params.attr_names # {} /\ snap.read /\ AbsentNames # {})
        => IF ControllerModeWithOthers
           THEN outcome = ExitFailed("HBA_MODE", <<>>)
           ELSE AllAbsentNamesReported

\* two absent names next to a valid attribute that differs, in check mode
C9_Witness ==
    /\ Finished /\ params.check_mode
    /\ params.attr_names = {"CopybackMode", "Bogus1", "Bogus2"}
    /\ snap.read /\ snap.curr_attr.CopybackMode # params.attr_val["CopybackMode"]
    /\ outcome = ExitFailed("INVALID_ATTRIBUTES", <<"Bogus1", "Bogus2">>)

----------------------------------------------------------------------------
(* C10 *)

\* C10: on the attributes path, whenever ControllerMode is among the requested names,
\* with any value, and another attribute is requested too, the invocation fails with
\* "Other attributes cannot be updated when ControllerMode is provided as input."
C10_ControllerModeExcludesOthers ==
    (Finished /\ params.attr_names # {} /\ snap.read
        /\ "ControllerMode" \in params.attr_names /\ Cardinality(params.attr_names) > 1)
        => outcome = ExitFailed("HBA_MODE", <<>>)

----------------------------------------------------------------------------
(* C11 *)

\* the attributes were read and hold every requested name
AttrsAllValid ==
    /\ params.attr_names # {} /\ snap.read
    /\ params.attr_names \subseteq DOMAIN snap.curr_attr

\* the requested names whose requested value is not the current one
Diff == {n \in params.attr_names : snap.curr_attr[n] # params.attr_val[n]}

DiffDecidesOutcome ==
    /\ Diff = {} => outcome = Exit("NO_CHANGES_FOUND", <<>>) /\ NumMutating = 0
    /\ (Diff # {} /\ params.check_mode)
          => outcome = ExitChanged("CHANGES_FOUND", <<>>) /\ NumMutating = 0

\* C11 as stated: on the attributes path with all requested names valid, an empty diff
\* ends with "No changes found to be applied." and no PATCH, in check mode and in real
\* mode; a non-empty diff in check mode ends with "Changes found to be applied."
\* (changed = true) and no PATCH.
C11_DiffDecidesOutcome == (Finished /\ AttrsAllValid) => DiffDecidesOutcome

\* C11 as amended: the same, unless ControllerMode is requested with a non-empty value
\* together with other names: then the ControllerMode-conflict error ends the
\* invocation, without a PATCH, before the diff is looked at.
C11_DiffDecidesOutcomeUnlessConflict ==
    (Finished /\ AttrsAllValid)
        => IF ControllerModeWithOthers
           THEN outcome = ExitFailed("HBA_MODE", <<>>) /\ NumMutating = 0
           ELSE DiffDecidesOutcome

\* a real run whose one requested attribute has its value already
C11_Witness ==
    /\ Finished /\ ~params.check_mode /\ AttrsAllValid
    /\ params.attr_names = {"CopybackMode"} /\ Diff = {}
    /\ outcome = Exit("NO_CHANGES_FOUND", <<>>)

----------------------------------------------------------------------------
(* C12 *)

PatchSent == \E i \in DOMAIN requests : requests[i].method = "PATCH"

\* C12: the settings PATCH carries as its attribute map exactly the requested attributes
\* whose requested value differs from the current one, and an apply-time directive
\* that names the requested apply time.
C12_PatchCarriesDiffAndApplyTime ==
    PatchSent => /\ payload.Attributes = {<<n, params.attr_val[n]>> : n \in Diff}
                 /\ payload.ApplyTime = params.apply_time

----------------------------------------------------------------------------
(* C13 *)

\* current {ControllerMode: RAID, CopybackMode: On}, requested {ControllerMode: HBA,
\* CopybackMode: On}
ModeChangeWithUnchangedOther ==
    /\ Finished /\ snap.read
    /\ params.attr_names = {"ControllerMode", "CopybackMode"}
    /\ params.attr_val["ControllerMode"] = "HBA" /\ params.attr_val["CopybackMode"] = "On"
    /\ snap.curr_attr = [ControllerMode |-> "RAID", CopybackMode |-> "On"]

\* C13 as stated: that request is processed as the diff {ControllerMode: HBA}: check mode
\* reports the change, real mode applies ControllerMode only.
C13_UnchangedAttributeDropped ==
    ModeChangeWithUnchangedOther
        => IF params.check_mode
           THEN outcome = ExitChanged("CHANGES_FOUND", <<>>)
           ELSE PatchSent /\ payload.Attributes = {<<"ControllerMode", "HBA">>}

\* C13 as amended: check_attr_exists would compute the diff {ControllerMode: HBA} for
\* that request, but set_attributes rejects it first with the ControllerMode-conflict
\* error, in check mode and in real mode, and nothing is applied.
C13_ModeChangeWithOtherRejected ==
    ModeChangeWithUnchangedOther
        => /\ outcome = ExitFailed("HBA_MODE", <<>>)
           /\ NumMutating = 0
           /\ pending_attr(params.attr_names, params.attr_val, snap.curr_attr)
                = {<<"ControllerMode", "HBA">>}

C13_Witness ==
    /\ ModeChangeWithUnchangedOther /\ ~params.check_mode
    /\ outcome.failed /\ outcome.msg.id = "HBA_MODE"

----------------------------------------------------------------------------
(* C14 *)

\* a real run got past the attribute checks with a non-empty diff, so that
\* SupportedApplyTimes was looked at
ApplyTimeLookedAt ==
    /\ Finished /\ AttrsAllValid /\ ~ControllerModeWithOthers
    /\ Diff # {} /\ ~params.check_mode

\* C14: on the attributes path with a non-empty diff and check mode off, if the requested
\* apply_time (any of the four) is not in the controller's SupportedApplyTimes, the
\* invocation ends with the unsupported-apply-time error and no PATCH is sent.
C14_UnsupportedApplyTimeRejected ==
    (ApplyTimeLookedAt /\ params.apply_time \notin snap.time_settings)
        => /\ outcome.failed
           /\ "UNSUPPORTED_APPLY_TIME" \in {outcome.msg.id, outcome.status_msg.id}
           /\ NumMutating = 0

----------------------------------------------------------------------------
(* C15 *)

MaintenanceApply ==
    params.apply_time \in {"AtMaintenanceWindowStart", "InMaintenanceWindowOnReset"}

\* the manager's DateTime and DateTimeLocalOffset were read
ClockRead ==
    \E i \in DOMAIN requests : requests[i].uri = "MANAGER_URI" /\ requests[i].result = "ok"

MaintenanceError(id) ==
    /\ outcome.failed /\ id \in {outcome.msg.id, outcome.status_msg.id}
    /\ NumMutating = 0

\* C15: for the two maintenance-window apply times the PATCH is sent only if start_time
\* ends with the manager's local offset and is not earlier than the manager's current
\* time; an offset mismatch gives the offset error and an earlier start time gives the
\* in-the-past error, both decided from the manager's clock, the offset first.
C15_WindowValidatedBeforePatch ==
    /\ (PatchSent /\ MaintenanceApply)
          => /\ ClockRead
             /\ EndsWith(params.mw_start, snap.date_offset)
             /\ ~TimeLess(params.mw_start, snap.curr_time)
    /\ (Finished /\ MaintenanceApply /\ ClockRead)
          => IF ~EndsWith(params.mw_start, snap.date_offset)
             THEN MaintenanceError("MAINTENANCE_OFFSET")
             ELSE TimeLess(params.mw_start, snap.curr_time)
                     => MaintenanceError("MAINTENANCE_TIME")

----------------------------------------------------------------------------
(* C16 *)

\* the positions in requests of the reads of uri
ReadsOf(uri) == {i \in DOMAIN requests : requests[i].uri = uri}

PostsAt == {i \in DOMAIN requests : Mutating(requests[i])}

\* C16: for SecureErase the remote system is asked once for a job of the same type,
\* after the drive was validated and before the submission; if there is such a job, no
\* SecureErase request is sent and the invocation ends with the job-exists message and
\* changed = false.
C16_ExistingJobStopsSecureErase ==
    params.command = "SecureErase"
        => /\ Cardinality(ReadsOf("JOBS")) <= 1
           /\ \A i \in ReadsOf("JOBS") : \E j \in ReadsOf("DRIVE") : j < i
           /\ \A k \in PostsAt :
                 \E i \in ReadsOf("JOBS") : i < k /\ requests[i].result = "ok"
           /\ (Finished /\ snap.read /\ snap.scheduled_job)
                 => /\ outcome = Exit("JOB_EXISTS", <<>>)
                    /\ ~outcome.changed
                    /\ NumMutating = 0

C16_Witness ==
    /\ Finished /\ params.command = "SecureErase"
    /\ snap.read /\ snap.scheduled_job
    /\ Cardinality(ReadsOf("JOBS")) = 1
    /\ outcome.msg.id = "JOB_EXISTS"

----------------------------------------------------------------------------
(* C17 *)

DriveErasable == snap.drive_ready = "Ready" /\ snap.erase_capable

SubmittedOnlyIfErasable ==
    /\ NumMutating > 0 => DriveErasable
    /\ (Finished /\ ~DriveErasable)
          => /\ outcome.skipped /\ ~outcome.failed
             /\ outcome.msg.id # "NO_CHANGES_FOUND"
             /\ NumMutating = 0

\* C17 as stated: a SecureErase request is sent only if the drive's RaidStatus is Ready
\* and its SystemEraseCapability is CryptographicErasePD; a drive that is not Ready, or
\* Ready but not erase-capable, gives a skipped outcome (not failed, not "no changes
\* found") and nothing is sent.
C17_SecureEraseOnlyIfErasable ==
    (params.command = "SecureErase" /\ snap.read) => SubmittedOnlyIfErasable

\* C17 as amended: the same, when the iDRAC firmware version is 3.0 or later (on older
\* firmware the drive's state is not looked at).
C17_SecureEraseOnlyIfErasableOnFirmware3 ==
    (params.command = "SecureErase" /\ snap.read /\ snap.firm_3) => SubmittedOnlyIfErasable

\* a Ready drive without the capability is skipped
C17_Witness ==
    /\ Finished /\ params.command = "SecureErase" /\ snap.read /\ snap.firm_3
    /\ snap.drive_ready = "Ready" /\ ~snap.erase_capable
    /\ outcome.skipped /\ outcome.msg.id = "DRIVE_NOT_SECURE_ERASE"

----------------------------------------------------------------------------
(* C18 *)

LastReq == requests[Len(requests)]

\* the last request was the first read of the controller, drive or volume the command
\* names, and the remote system did not find it
LookupFailed ==
    /\ Finished /\ params.command \in Commands /\ requests # <<>>
    /\ LastReq.method = "GET"
    /\ LastReq.uri \in {"CONTROLLER_URI", "PD_URI", "VOLUME_URI"}
    /\ LastReq.id # NoneId
    /\ LastReq.result \in {"http", "unsuccessful"}
    /\ \A j \in 1..(Len(requests) - 1) :
          ~(requests[j].uri = LastReq.uri /\ requests[j].id = LastReq.id)

\* validate_secure_erase did not find the controller or the drive in the lists it read
EraseLookupFailed ==
    /\ Finished /\ params.command = "SecureErase"
    /\ outcome.msg.id \in {"CNTRL_ERROR_MSG", "PD_ERROR_MSG"}

\* the message of the outcome names id
OutcomeNames(id) ==
    \/ outcome.msg.arg = id
    \/ outcome.msg.arg # <<>> /\ Tail(outcome.msg.arg) = id

\* C18: for every command, if the controller, drive or volume it names is not found on
\* the remote system, the outcome is marked failed and names the missing identifier,
\* and no action is submitted; SecureErase of a drive that is not attached to the
\* controller included.
C18_NotFoundFails ==
    /\ LookupFailed
          => outcome.failed /\ OutcomeNames(LastReq.id) /\ NumMutating = 0
    /\ EraseLookupFailed
          => /\ outcome.failed /\ NumMutating = 0
             /\ OutcomeNames(IF outcome.msg.id = "CNTRL_ERROR_MSG"
                             THEN params.controller_id ELSE params.target[1])

----------------------------------------------------------------------------
(* C19 *)

\* the remote system answered the action request with an HTTP error
ActionRejected == NumMutating = 1 /\ MutatingRequests[1].result = "http"

\* C19: when the remote system rejects the action request with an HTTP error, the
\* invocation ends with a failed outcome whose error_info carries the remote error
\* payload, with changed = false, and reads no job status.
C19_RejectedActionFailsWithErrorInfo ==
    (Finished /\ ActionRejected)
        => /\ outcome.failed /\ outcome.error_info /\ ~outcome.changed
           /\ NumJobReads = 0

----------------------------------------------------------------------------
(* C20 *)

\* a remote call failed in the transport (no connection, certificate not valid)
TransportFailed == \E i \in DOMAIN requests : requests[i].result \in Transport

\* a remote call was answered with an HTTP error
HttpFailed == \E i \in DOMAIN requests : requests[i].result = "http"

\* C20: a transport-level failure (connectivity, TLS validation) of any remote call ends
\* the invocation with an outcome marked unreachable and not failed; an HTTP error
\* response ends it with an outcome marked failed and not unreachable; no outcome is
\* both.
C20_UnreachableDistinctFromFailed ==
    Finished => /\ TransportFailed => outcome.unreachable /\ ~outcome.failed
                /\ HttpFailed => outcome.failed /\ ~outcome.unreachable
                /\ ~(outcome.unreachable /\ outcome.failed)

----------------------------------------------------------------------------
(* C21 *)

\* the volume was read and its RAID type grows by drives
OceByTargetRead ==
    /\ OceByTarget /\ snap.read
    /\ snap.raid_type \in {"RAID0", "RAID5", "RAID6", "RAID10"}

\* C21: OnlineCapacityExpansion by target: with drives_to_add the requested targets
\* that are not members of the volume and m the RAID type's minimum increment (RAID0,
\* RAID5, RAID6: 1; RAID10: 2), the outcome is "no changes found" with no submission
\* when drives_to_add is empty or its count is not divisible by m; otherwise a dry run
\* reports "changes found" without submitting and a real run submits once with PDArray
\* equal to drives_to_add.
C21_OceByTargetDecision ==
    OceByTargetRead =>
        LET m == IF snap.raid_type = "RAID10" THEN 2 ELSE 1
        IN  IF DrivesToAdd = <<>> \/ Len(DrivesToAdd) % m # 0
            THEN NoChangesFoundOutcome /\ NumMutating = 0
            ELSE IF params.check_mode
            THEN ChangesFoundOutcome /\ NumMutating = 0
            ELSE /\ NumMutating = 1
                 /\ MutatingRequests[1].uri = "OnlineCapacityExpansion"
                 /\ payload.sent /\ payload.PDArray = DrivesToAdd

\* C21 as the code has it: the statement holds for a target list that is not empty; an
\* empty target list ends with the failed outcome OCE_TARGET_EMPTY and no submission.
C21_OceByTargetDecisionNonEmptyTarget ==
    OceByTargetRead =>
        LET m == IF snap.raid_type = "RAID10" THEN 2 ELSE 1
        IN  IF params.target = <<>>
            THEN outcome = ExitFailed("OCE_TARGET_EMPTY", <<>>) /\ NumMutating = 0
            ELSE IF DrivesToAdd = <<>> \/ Len(DrivesToAdd) % m # 0
            THEN NoChangesFoundOutcome /\ NumMutating = 0
            ELSE IF params.check_mode
            THEN ChangesFoundOutcome /\ NumMutating = 0
            ELSE /\ NumMutating = 1
                 /\ MutatingRequests[1].uri = "OnlineCapacityExpansion"
                 /\ payload.sent /\ payload.PDArray = DrivesToAdd

\* RAID10 with two new drives next to a member drive is submitted
C21_Witness ==
    /\ OceByTargetRead /\ snap.raid_type = "RAID10" /\ ~params.check_mode
    /\ Len(DrivesToAdd) = 2 /\ NumMutating = 1 /\ payload.PDArray = DrivesToAdd
    /\ snap.current_pd # {}

----------------------------------------------------------------------------
(* C22 *)

\* C22: OnlineCapacityExpansion by size: with current the volume's CapacityBytes in
\* whole MB, the expansion is submitted, with payload Size equal to the requested size,
\* if and only if the requested size exceeds current by at least 100 MB; otherwise the
\* invocation ends with a failed outcome and no submission.
C22_OceBySizeSubmittedIffDelta ==
    (OceBySize /\ snap.read) =>
        LET current == snap.capacity_bytes \div BytesPerMB
        IN  IF params.size - current >= 100
            THEN NumMutating = 1 /\ payload.sent /\ payload.Size = params.size
            ELSE outcome.failed /\ NumMutating = 0

----------------------------------------------------------------------------
(* C23 *)

\* C23: LockVirtualDisk on an Unlocked volume: if a member drive is not a
\* self-encrypting drive the invocation ends with the failed outcome "Volume is not
\* encryption capable.", never with "no changes found", and submits nothing; if all
\* member drives are self-encrypting, a dry run reports "changes found" without
\* submitting and a real run submits the lock action exactly once.
C23_LockUnlockedVolume ==
    (params.command = "LockVirtualDisk" /\ snap.read /\ snap.lock_status = "Unlocked") =>
        IF ~snap.all_sed
        THEN /\ outcome = Fail("PHYSICAL_DISK_ERR", <<>>) /\ outcome.failed
             /\ ~NoChangesFoundOutcome /\ NumMutating = 0
        ELSE IF params.check_mode
        THEN ChangesFoundOutcome /\ NumMutating = 0
        ELSE /\ NumMutating = 1
             /\ MutatingRequests[1].uri = "LockVirtualDisk"
             /\ payload.TargetFQDD = params.volume_id[1]

\* an Unlocked volume whose second member is not self-encrypting was refused
C23_Witness ==
    /\ params.command = "LockVirtualDisk" /\ snap.read /\ snap.lock_status = "Unlocked"
    /\ ~snap.all_sed /\ outcome.failed /\ ~params.check_mode
    /\ Len(SelectSeq(requests, LAMBDA r : r.uri = "DRIVE_LINK")) = 2

----------------------------------------------------------------------------
(* C24 *)

\* C24: ConvertToRAID (target state Ready) and ConvertToNonRAID (target state NonRAID),
\* for any non-empty list of target drives whose RAID status is any of Ready, NonRAID,
\* Online, Offline: if every drive is at the target state the outcome is "no changes
\* found" with no submission; if any drive is not at the target state, a dry run reports
\* "changes found" with no submission and a real run submits the conversion once.
C24_ConvertDecidedByTargetState ==
    (params.command \in {"ConvertToRAID", "ConvertToNonRAID"} /\ snap.read
     /\ params.target # <<>>) =>
        IF \A i \in DOMAIN snap.raid_status : snap.raid_status[i] = PdTargetState
        THEN NoChangesFoundOutcome /\ NumMutating = 0
        ELSE IF params.check_mode
        THEN ChangesFoundOutcome /\ NumMutating = 0
        ELSE /\ NumMutating = 1 /\ MutatingRequests[1].uri = params.command
             /\ payload.PDArray = params.target

----------------------------------------------------------------------------
(* C25 *)

\* the caller runs the same task a second time, after an invocation that found the
\* remote system at the target state of the command has ended
Reinvoke ==
    /\ pc = "done" /\ ~first.done
    /\ AtTarget
    /\ first' = [done |-> TRUE, snap |-> snap, outcome |-> outcome, requests |-> requests]
    /\ pc' = "start"
    /\ requests' = <<>>
    /\ payload' = NoPayload
    /\ snap' = NoSnap
    /\ job' = NoJob
    /\ jobState' = "None"
    /\ budget' = 0
    /\ lastResp' = NoStatus
    /\ outcome' = NoOutcome
    /\ UNCHANGED <<params, conc, ome>>

\* two invocations of the same task in succession
SpecTwice == Init /\ [][Next \/ Reinvoke]_vars

\* both invocations have ended, and the second one read the snapshot the first one
\* read: the remote system did not change in between
SecondSawTheSame == first.done /\ Finished /\ snap = first.snap

\* C25: for every NoOp-eligible command, two successive invocations against a remote
\* system whose state does not change between them and is already at the target state
\* end with the same "No changes found to be applied." outcome, and neither submits an
\* action.
C25_TwiceAtTargetNoChanges ==
    (SecondSawTheSame /\ AtTarget) =>
        /\ first.outcome = Exit("NO_CHANGES_FOUND", <<>>)
        /\ outcome = first.outcome
        /\ SelectSeq(first.requests, Mutating) = <<>>
        /\ NumMutating = 0

\* C25 as the code has it: the statement holds when the snapshot passes the command's
\* own validation; when it does not, both invocations end with the same validation
\* error, and neither submits.
C25_TwiceAcceptedAtTargetNoChanges ==
    (SecondSawTheSame /\ AtTarget) =>
        /\ outcome = first.outcome
        /\ SelectSeq(first.requests, Mutating) = <<>>
        /\ NumMutating = 0
        /\ IF SnapshotAccepted THEN NoChangesFoundOutcome ELSE outcome.failed

\* a drive that is a hot spare already was assigned twice
C25_Witness ==
    /\ SecondSawTheSame /\ AtTarget /\ params.command = "AssignSpare"
    /\ ~params.check_mode /\ NoChangesFoundOutcome /\ first.outcome = outcome
    /\ Len(requests) = 1 /\ Len(first.requests) = 1

----------------------------------------------------------------------------
(* C26 *)

\* C26: within one invocation the remote calls are ordered resolve, snapshot, decide,
\* submit, poll: the mutating request is issued only after every resolution and
\* snapshot read of the invocation has returned successfully, no resource or snapshot
\* read is issued after the mutating request, and job-status reads occur only after a
\* successful submission.
C26_CallsOrdered ==
    \A i \in DOMAIN requests :
        /\ Mutating(requests[i]) =>
              /\ \A j \in 1..(i - 1) :
                    requests[j].method = "GET" /\ requests[j].result = "ok"
              /\ \A j \in (i + 1)..Len(requests) : requests[j].uri = "JOB_URI_OEM"
        /\ requests[i].uri = "JOB_URI_OEM" =>
              \E j \in 1..(i - 1) : Mutating(requests[j]) /\ requests[j].result = "ok"

\* a secure erase that read the drive, the firmware and the job queue, submitted, and
\* read the job twice
C26_Witness ==
    /\ Finished /\ params.command = "SecureErase" /\ NumMutating = 1 /\ NumJobReads = 2
    /\ Len(requests) > 4

----------------------------------------------------------------------------
(* C27 *)

\* C27: after an action has been submitted the core only reads the job resource: in no
\* invocation, one whose wait timed out or whose job failed included, does it send a
\* cancel, a delete or any other write request for the job.
C27_JobOnlyRead ==
    \A i \in DOMAIN requests :
        /\ requests[i].uri = "JOB_URI_OEM" => requests[i].method = "GET"
        /\ (\E j \in 1..(i - 1) : Mutating(requests[j])) =>
              requests[i] = JobRead(job, requests[i].result)

\* a wait that timed out after two reads of the job, and nothing sent after them
C27_Witness ==
    /\ WaitTimedOut /\ NumJobReads = 2
    /\ requests[Len(requests)].uri = "JOB_URI_OEM" /\ requests[Len(requests)].method = "GET"

----------------------------------------------------------------------------
(* C28 *)

\* two invocations of hot_spare_config with the same parameters start at the same
\* time, against one drive; each is at the GET of the drive
InitConcurrent ==
    /\ params \in {p \in DriveParams : /\ p.command \in {"AssignSpare", "UnassignSpare"}
                                       /\ Len(p.target) = 1
                                       /\ p.volume_given => Len(p.volume_id) = 1}
    /\ pc = "start"
    /\ requests = <<>>
    /\ payload = NoPayload
    /\ snap = NoSnap
    /\ job = NoJob
    /\ jobState = "None"
    /\ budget = 0
    /\ lastResp = NoStatus
    /\ outcome = NoOutcome
    /\ first = NoFirst
    /\ ome = NoOme
    /\ conc \in {[remote |-> h, jobs |-> 0, log |-> <<>>,
                  proc |-> [i \in 1..2 |-> [pc |-> "read", hot_spare |-> "", posted |-> FALSE]]] :
                    h \in HotspareTypes}

\* invocation i: pd_resp = redfish_obj.invoke_request("GET", PD_URI...) and
\* hot_spare = pd_resp.json_data.get("HotspareType")
ConcRead(i) ==
    /\ conc.proc # <<>> /\ conc.proc[i].pc = "read"
    /\ \E get_r \in GetResults :
          conc' = [conc EXCEPT !.log = Append(@, <<i, "GET">>),
                               !.proc[i].pc = IF get_r = "ok" THEN "decide" ELSE "done",
                               !.proc[i].hot_spare = IF get_r = "ok" THEN conc.remote ELSE ""]
    /\ UNCHANGED <<params, pc, requests, payload, snap, job, jobState, budget, lastResp,
                   outcome, first, ome>>

\* invocation i: the if / elif / else on hot_spare, and the POST of the else branch; an
\* accepted POST leaves a job with the remote system
ConcDecide(i) ==
    /\ conc.proc # <<>> /\ conc.proc[i].pc = "decide"
    /\ IF hot_spare_decision(params.check_mode, conc.proc[i].hot_spare, params.command) = "submit"
       THEN \E post_r \in PostResults :
               conc' = [conc EXCEPT !.log = Append(@, <<i, "POST">>),
                                    !.proc[i].pc = "done",
                                    !.proc[i].posted = TRUE,
                                    !.jobs = IF post_r = "ok" THEN @ + 1 ELSE @]
       ELSE conc' = [conc EXCEPT !.proc[i].pc = "done"]
    /\ UNCHANGED <<params, pc, requests, payload, snap, job, jobState, budget, lastResp,
                   outcome, first, ome>>

\* the remote system runs a job: the drive becomes, or stops being, a hot spare
RemoteRuns ==
    /\ conc.jobs > 0
    /\ conc' = [conc EXCEPT !.jobs = @ - 1,
                            !.remote = IF params.command = "UnassignSpare" THEN "None"
                                       ELSE IF params.volume_given THEN "Dedicated"
                                       ELSE "Global"]
    /\ UNCHANGED <<params, pc, requests, payload, snap, job, jobState, budget, lastResp,
                   outcome, first, ome>>

SpecConcurrent ==
    InitConcurrent /\ [][RemoteRuns \/ \E i \in 1..2 : ConcRead(i) \/ ConcDecide(i)]_vars

\* C28: the core does not coordinate concurrent invocations: of two concurrent
\* invocations of the same NoOp-eligible command against the same resource, not in dry
\* run, each one that read the resource not at the target state submits an action,
\* whatever the other one has read or submitted; both can read before either submits,
\* and then both submit: at most one submission per target is not guaranteed.
C28_EachInvocationSubmitsOnItsOwnSnapshot ==
    \A i \in DOMAIN conc.proc :
        LET me == conc.proc[i]
            not_at_target == IF params.command = "AssignSpare"
                             THEN me.hot_spare = "None"
                             ELSE me.hot_spare \in {"Dedicated", "Global"}
        IN  (me.pc = "done" /\ ~params.check_mode) => (me.posted <=> not_at_target)

\* AssignSpare on a drive whose hot-spare type is None: both invocations read the
\* drive before either sent its POST, and both sent it
C28_Witness ==
    /\ params.command = "AssignSpare" /\ ~params.check_mode
    /\ Len(conc.log) = 4
    /\ conc.log[1][2] = "GET" /\ conc.log[2][2] = "GET"
    /\ conc.log[3][2] = "POST" /\ conc.log[4][2] = "POST"
    /\ \A i \in DOMAIN conc.proc : conc.proc[i].posted /\ conc.proc[i].hot_spare = "None"
    /\ conc.jobs = 2

----------------------------------------------------------------------------
(* C29 *)

\* C29: whenever the remote system accepted a mutating request and returned a job
\* location, the outcome handed to the caller contains the job handle {id, uri} of that
\* job: on the command path and on the attributes path, with and without job_wait, when
\* the job failed, when the wait timed out, and for every value of the controller's
\* SupportedApplyTimes, an empty list included.
C29_AcceptedSubmissionReturnsJobHandle ==
    (Finished /\ SubmissionAccepted)
        => outcome.task = [id |-> JobIdOf(JobLocation), uri |-> JOB_URI_OEM(JobIdOf(JobLocation))]

----------------------------------------------------------------------------
(* C30 *)

\* the reads of the drives and volumes the caller named, in the order they were sent
NamedReads == SelectSeq(requests, LAMBDA r : r.uri \in {"PD_URI", "VOLUME_URI"})

\* C30: for every command that targets a physical drive or a volume by identifier
\* (AssignSpare, UnassignSpare, ChangePDStateToOnline/Offline, ConvertToRAID/NonRAID,
\* LockVirtualDisk, OnlineCapacityExpansion), the controller id used to build the read
\* request is exactly the text after the last ':' of the identifier, and the drive or
\* volume id used is the full identifier, unchanged.
C30_ControllerIdIsLastSegment ==
    (params.command \in {"AssignSpare", "UnassignSpare", "ChangePDStateToOnline",
                         "ChangePDStateToOffline", "ConvertToRAID", "ConvertToNonRAID",
                         "LockVirtualDisk", "OnlineCapacityExpansion"}) =>
        LET named == IF params.command \in {"LockVirtualDisk", "OnlineCapacityExpansion"}
                     THEN params.volume_id ELSE params.target
        IN  /\ Len(NamedReads) <= Len(named)
            /\ \A k \in DOMAIN NamedReads :
                  /\ NamedReads[k].id = named[k]
                  /\ NamedReads[k].controller_id = SubSeq(named[k], Len(named[k]), Len(named[k]))
                  /\ Len(NamedReads[k].controller_id) = 1
            /\ \A i \in DOMAIN requests :
                  requests[i].uri = "CONTROLLER_URI" =>
                      requests[i].controller_id
                          = SubSeq(named[1], Len(named[1]), Len(named[1]))

\* ConvertToRAID of two drives read both, each under its own identifier and under the
\* controller named by its last segment
C30_Witness ==
    /\ params.command = "ConvertToRAID" /\ Len(params.target) = 2 /\ Len(NamedReads) = 2
    /\ NamedReads[2].id = params.target[2] /\ NamedReads[2].controller_id = <<"RAID.1">>
    /\ Len(params.target[2]) = 3

----------------------------------------------------------------------------
(* C31 *)

\* C31: for AssignSpare, UnassignSpare, BlinkTarget, UnBlinkTarget, LockVirtualDisk,
\* ChangePDStateToOnline, ChangePDStateToOffline and SecureErase, a target list (and,
\* for the first five, a volume_id list) of more than one element ends the invocation
\* with the "must be only one" failure before any request, read or write, is sent to
\* the remote system.
C31_MoreThanOneTargetFailsBeforeAnyRequest ==
    LET one_volume == {"AssignSpare", "UnassignSpare", "BlinkTarget", "UnBlinkTarget",
                       "LockVirtualDisk"}
        one_target == one_volume \cup {"ChangePDStateToOnline", "ChangePDStateToOffline",
                                       "SecureErase"}
        too_many == \/ params.command \in one_target /\ Len(params.target) > 1
                    \/ params.command \in one_volume /\ Len(params.volume_id) > 1
    IN  too_many =>
           /\ requests = <<>>
           /\ pc \in {"start", "done"}
           /\ Finished => /\ outcome.kind = "fail_json" /\ outcome.failed
                          /\ outcome.msg.id = "TARGET_ERR_MSG"

\* a lock of two volumes was refused with nothing sent
C31_Witness ==
    /\ Finished /\ params.command = "LockVirtualDisk" /\ Len(params.volume_id) = 2
    /\ outcome = Fail("TARGET_ERR_MSG", <<"virtual drive">>) /\ requests = <<>>

----------------------------------------------------------------------------
(* C32 *)

\* C32: on the attributes path the job is polled to completion if and only if job_wait
\* is true and the applied apply time is Immediate; for OnReset,
\* AtMaintenanceWindowStart and InMaintenanceWindowOnReset the invocation never waits,
\* even when job_wait is true: it reads the job status once and ends with the
\* "Successfully submitted the job that configures the controller attributes." outcome.
C32_AttributesWaitOnlyWhenImmediate ==
    (params.attr_names # {} /\ SubmissionAccepted /\ JobReadsOk /\ payload.ApplyTime # "") =>
        IF params.job_wait /\ payload.ApplyTime = "Immediate"
        THEN Finished => /\ outcome.msg.id # "JOB_SUBMISSION_ATTRIBUTES"
                         /\ job_is_terminal(lastResp.JobState) \/ budget = 0
        ELSE /\ NumJobReads <= 1
             /\ Finished => /\ NumJobReads = 1
                            /\ outcome.msg.id = "JOB_SUBMISSION_ATTRIBUTES"
                            /\ ~outcome.failed
                            /\ outcome.task = Task(job)

\* job_wait was asked for with apply time OnReset: the job was read once, still
\* Scheduled, and reported as submitted
C32_Witness ==
    /\ params.attr_names # {} /\ Finished /\ params.job_wait
    /\ payload.ApplyTime = "OnReset" /\ NumJobReads = 1
    /\ lastResp.JobState = "Scheduled"
    /\ outcome.msg.id = "JOB_SUBMISSION_ATTRIBUTES"

----------------------------------------------------------------------------
(* C33 *)

\* main() runs on: a step of it that can be taken is taken. The remote system is
\* under no such obligation: a job may stay New, Scheduled or Running for ever.
LiveSpec == Spec /\ WF_vars(Next /\ jobState' = jobState)

\* C33: when job_wait is requested the invocation always terminates, with exactly one
\* terminal outcome: polling stops at the first observation of Completed or Failed,
\* and if the job never reaches a terminal state polling stops once the
\* job_wait_timeout budget is used up.
C33_WaitTerminates ==
    /\ <>Finished
    /\ [](Finished => outcome.kind # "none")
    /\ [][Finished => outcome' = outcome]_vars
    /\ []((pc = "job" /\ waits_for_job(params, job)) =>
             /\ ~job_is_terminal(lastResp.JobState)
             /\ NumJobReads + budget = params.job_wait_timeout)

\* the job stayed Running, the budget of two reads was used up, and the wait ended
C33_Witness ==
    /\ WaitTimedOut /\ jobState = "Running" /\ NumJobReads = 2
    /\ params.job_wait_timeout = 2 /\ outcome.kind # "none"

----------------------------------------------------------------------------
(* C34 *)

\* C34: every invocation in which a mutating request was submitted and accepted by the
\* remote system ends with an outcome that reports changed = true, unless the job was
\* observed Failed; so it is when job_wait is false and the outcome is "Successfully
\* submitted the job".
C34_AcceptedSubmissionReportsChanged ==
    (Finished /\ SubmissionAccepted) => (outcome.changed \/ lastResp.JobState = "Failed")

----------------------------------------------------------------------------
(* C35 *)

\* C35: in every outcome of every invocation changed = true and failed = true never
\* hold together; every "No changes found to be applied." outcome has changed = false
\* and failed = false, and every "Changes found to be applied." outcome has
\* changed = true and occurs only when dry run is on.
C35_ChangedAndFailedExclude ==
    /\ ~(outcome.changed /\ outcome.failed)
    /\ outcome.msg = NO_CHANGES_FOUND => ~outcome.changed /\ ~outcome.failed
    /\ outcome.msg = CHANGES_FOUND => outcome.changed /\ params.check_mode

\* a wait that saw the job fail: failed, and not changed
C35_Witness ==
    /\ Finished /\ IsJobFailedOutcome /\ lastResp.JobState = "Failed"
    /\ params.attr_names # {} /\ ~outcome.changed

----------------------------------------------------------------------------
(* C36 *)

\* C36: every invocation whose parameters pass argument validation ends in a normalized
\* outcome, an exit or a fail record; no exception escapes main(). This includes an
\* empty target or volume_id list, an action response without a Location header, and a
\* BlinkTarget / UnBlinkTarget response that succeeds with a status other than 200.
C36_NoExceptionEscapes ==
    Finished => outcome.kind \in {"exit_json", "fail_json"}

----------------------------------------------------------------------------
(* C37 *)

KeyCommands ==
    {"SetControllerKey", "ReKey", "RemoveControllerKey", "EnableControllerEncryption"}

----------------------------------------------------------------------------
(* C38 *)

\* the drives of list s, as a set
Elems(s) == {s[i] : i \in 1..Len(s)}

\* C38: every OnlineCapacityExpansion action sent to the remote system carries a payload
\* whose TargetFQDD is the single volume id and that has exactly one of PDArray, a
\* non-empty list of requested drives that are not members of the volume, and Size, the
\* requested size; for every accepted parameter combination, size 0 without a target
\* included.
C38_OcePayloadWellFormed ==
    (params.command = "OnlineCapacityExpansion" /\ NumMutating > 0) =>
        /\ payload.sent
        /\ Len(params.volume_id) = 1 /\ payload.TargetFQDD = params.volume_id[1]
        /\ LET byDrives == /\ payload.PDArray # <<>>
                           /\ Elems(payload.PDArray) \subseteq Elems(params.target)
                           /\ Elems(payload.PDArray) \cap snap.current_pd = {}
               bySize == payload.Size # -1 /\ payload.Size = params.size
           IN  byDrives # bySize

----------------------------------------------------------------------------
(* ome_firmware_baseline_compliance_info *)

base_line_path == "UpdateService/Baselines"
baselines_report_by_device_ids_path ==
    "UpdateService/Actions/UpdateService.GetBaselinesReportByDeviceids"
device_is_list_path == "DeviceService/Devices"
baselines_compliance_report_path == "UpdateService/Baselines({Id})/DeviceComplianceReports"
group_service_path == "GroupService/Groups"
group_id_path == "GroupService/Groups({group_id})/Devices"

\* mutually_exclusive and required_one_of leave exactly one of the four options given;
\* "given" names it, every other option is None
OmeInvocations ==
    {[NoOme.params EXCEPT !.given = "baseline_name", !.baseline_name = n] :
        n \in {"", "b1", "b2"}}
    \cup {[NoOme.params EXCEPT !.given = "device_ids", !.device_ids = d] :
        d \in {<<>>, <<1>>, <<1, 2>>, <<3>>}}
    \cup {[NoOme.params EXCEPT !.given = "device_group_names", !.device_group_names = g] :
        g \in {<<>>, <<"g1">>, <<"g1", "g2">>, <<"g3">>}}
    \cup {[NoOme.params EXCEPT !.given = "device_service_tags", !.device_service_tags = t] :
        t \in {<<>>, <<"t1">>, <<"t1", "t2">>, <<"t3">>}}

\* what rest_obj.invoke_request does: a response with success true, a response with
\* success false, HTTPError, or URLError / SSLValidationError / ConnectionError
OmeResults == {"ok", "not_success", "http", "url"}

\* the baselines, groups, devices and report entries the remote system may hold
BaselineLists ==
    {<<>>,
     <<[Name |-> "b1", Id |-> 1]>>,
     <<[Name |-> "b2", Id |-> 2]>>,
     <<[Name |-> "b1", Id |-> 1], [Name |-> "b2", Id |-> 2]>>,
     <<[Name |-> "b2", Id |-> 2], [Name |-> "b1", Id |-> 1]>>,
     <<[Name |-> "b1", Id |-> 2], [Name |-> "b1", Id |-> 1]>>}
GroupLists ==
    {<<>>,
     <<[Name |-> "g1", Id |-> 10]>>,
     <<[Name |-> "g2", Id |-> 20], [Name |-> "g1", Id |-> 10]>>}
GroupDevices ==
    [{10, 20} -> {[result |-> "ok", ids |-> <<>>], [result |-> "ok", ids |-> <<1>>],
                  [result |-> "ok", ids |-> <<2, 1>>], [result |-> "not_success", ids |-> <<>>],
                  [result |-> "http", ids |-> <<>>]}]
DeviceLists ==
    {<<>>,
     <<[Id |-> 1, DeviceServiceTag |-> "t1"]>>,
     <<[Id |-> 2, DeviceServiceTag |-> "t2"], [Id |-> 1, DeviceServiceTag |-> "t1"]>>,
     <<[Id |-> 1, DeviceServiceTag |-> "t1"], [Id |-> 1, DeviceServiceTag |-> "t2"]>>}
ReportData == {<<>>, <<"report">>}

OmeReq(method, path, id, ids, result, value) ==
    [method |-> method, path |-> path, id |-> id, ids |-> ids, result |-> result,
     value |-> value]

OmeExit(data) == [NoOme.outcome EXCEPT !.kind = "exit_json", !.data = data]
OmeFail(msg) == [NoOme.outcome EXCEPT !.kind = "fail_json", !.msg = msg]

\* what a function of the module hands back: the requests it sent, and either the
\* outcome it ended the module with, the exception it let through, or its value
OmeRet(reqs) ==
    [reqs |-> reqs, out |-> NoOme.outcome, exc |-> "", id |-> 0, ids |-> <<>>,
     identifier |-> "", data |-> <<>>]
OmeDone(reqs, out) == [OmeRet(reqs) EXCEPT !.out = out]
OmeRaise(reqs, r) ==
    [OmeRet(reqs) EXCEPT !.exc = IF r = "http" THEN "HTTPError" ELSE "URLError"]
OmeStopped(x) == x.out.kind # "none" \/ x.exc # ""

\* index of the first element of s that satisfies Test, 0 when there is none
FirstIndex(s, Test(_)) ==
    IF \E i \in 1..Len(s) : Test(s[i])
    THEN CHOOSE i \in 1..Len(s) : Test(s[i]) /\ \A j \in 1..(i - 1) : ~Test(s[j])
    ELSE 0

\* all(not identifer for identifer in [device_ids, device_service_tags,
\* device_group_names, baseline_name]): None, "" and [] are all false
ome_validate_inputs(p) ==
    IF /\ p.baseline_name = "" /\ p.device_ids = <<>>
       /\ p.device_group_names = <<>> /\ p.device_service_tags = <<>>
    THEN OmeFail("one of the following is required: device_ids, device_service_tags, device_group_names, baseline_name to generate device based compliance report.")
    ELSE NoOme.outcome

\* list(service_tag_dict.keys()): the ids of the devices whose tag was asked for, each
\* once, in the order of their first appearance
RECURSIVE service_tag_dict_keys(_, _)
service_tag_dict_keys(devices_list, service_tags) ==
    IF devices_list = <<>> THEN <<>>
    ELSE LET n == Len(devices_list)
             item == devices_list[n]
             keys == service_tag_dict_keys(SubSeq(devices_list, 1, n - 1), service_tags)
         IN  IF \E i \in 1..Len(service_tags) : service_tags[i] = item.DeviceServiceTag
             THEN IF \E i \in 1..Len(keys) : keys[i] = item.Id THEN keys
                  ELSE Append(keys, item.Id)
             ELSE keys

get_device_id_from_service_tags(service_tags, r, devices_list) ==
    LET reqs == <<OmeReq("GET", device_is_list_path, 0, <<>>, r,
                         IF r = "ok" THEN devices_list ELSE <<>>)>>
    IN  IF r \in {"http", "url"} THEN OmeRaise(reqs, r)
        ELSE IF r = "ok"
        THEN [OmeRet(reqs) EXCEPT !.ids = service_tag_dict_keys(devices_list, service_tags)]
        ELSE OmeDone(reqs, OmeFail("Failed to fetch the device information."))

RECURSIVE get_device_ids_from_group_ids(_, _, _, _)
get_device_ids_from_group_ids(reqs, device_id_list, grou_id_list, group_devices) ==
    IF grou_id_list = <<>> THEN [OmeRet(reqs) EXCEPT !.ids = device_id_list]
    ELSE LET group_id == Head(grou_id_list)
             resp == group_devices[group_id]
             sent == Append(reqs, OmeReq("GET", group_id_path, group_id, <<>>,
                                         resp.result, resp.ids))
         IN  IF resp.result \in {"http", "url"} THEN OmeRaise(sent, resp.result)
             ELSE IF resp.result = "ok"
             THEN get_device_ids_from_group_ids(sent, device_id_list \o resp.ids,
                                                Tail(grou_id_list), group_devices)
             ELSE OmeDone(sent, OmeFail("Failed to fetch the device ids from specified I(device_group_names)."))

\* for name in grp_name_list: the Id of the first group of that name, when there is one
RECURSIVE group_id_list(_, _)
group_id_list(grp_name_list, grp_list_resp) ==
    IF grp_name_list = <<>> THEN <<>>
    ELSE LET i == FirstIndex(grp_list_resp, LAMBDA group : group.Name = Head(grp_name_list))
             rest == group_id_list(Tail(grp_name_list), grp_list_resp)
         IN  IF i = 0 THEN rest ELSE <<grp_list_resp[i].Id>> \o rest

get_device_ids_from_group_names(p, r, grp_list_resp, group_devices) ==
    LET reqs == <<OmeReq("GET", group_service_path, 0, <<>>, r,
                         IF r = "ok" THEN grp_list_resp ELSE <<>>)>>
    IN  IF r \in {"http", "url"} THEN OmeRaise(reqs, r)
        ELSE IF r = "ok"
        THEN get_device_ids_from_group_ids(reqs, <<>>,
                 group_id_list(p.device_group_names, grp_list_resp), group_devices)
        ELSE OmeDone(reqs, OmeFail("Failed to fetch the specified I(device_group_names)."))

get_identifiers(p, r, grp_list_resp, group_devices, devices_list) ==
    IF p.given = "device_ids"
    THEN [OmeRet(<<>>) EXCEPT !.ids = p.device_ids, !.identifier = "device_ids"]
    ELSE IF p.given = "device_group_names"
    THEN [get_device_ids_from_group_names(p, r, grp_list_resp, group_devices)
             EXCEPT !.identifier = "device_group_names"]
    ELSE [get_device_id_from_service_tags(p.device_service_tags, r, devices_list)
             EXCEPT !.identifier = "device_service_tags"]

get_baseline_id_from_name(p, r, baseline_list) ==
    LET baseline_name == p.baseline_name
        reqs == <<OmeReq("GET", base_line_path, 0, <<>>, r,
                         IF r = "ok" THEN baseline_list ELSE <<>>)>>
        i == FirstIndex(baseline_list, LAMBDA baseline : baseline.Name = baseline_name)
    IN  IF p.given # "baseline_name"
        THEN OmeDone(<<>>, OmeFail("I(baseline_name) is a mandatory option."))
        ELSE IF r \in {"http", "url"} THEN OmeRaise(reqs, r)
        ELSE IF r = "ok"
        THEN IF Len(baseline_list) > 0
             THEN IF i # 0 THEN [OmeRet(reqs) EXCEPT !.id = baseline_list[i].Id]
                  ELSE OmeDone(reqs, OmeFail("Specified I(baseline_name) does not exist in the system."))
             ELSE OmeDone(reqs, OmeFail("No baseline exists in the system."))
        ELSE \* resp.success is false: baseline_id is still 0
             [OmeRet(reqs) EXCEPT !.id = 0]

get_baseline_compliance_reports(p, r, baseline_list, r2, report) ==
    LET b == get_baseline_id_from_name(p, r, baseline_list)
        baseline_id == b.id
        sent == Append(b.reqs, OmeReq("GET", baselines_compliance_report_path, baseline_id,
                                      <<>>, r2, IF r2 = "ok" THEN report ELSE <<>>))
    IN  IF OmeStopped(b) THEN b
        ELSE IF r2 \in {"http", "url"} THEN OmeRaise(sent, r2)
        ELSE [OmeRet(sent) EXCEPT !.data = IF r2 = "ok" THEN report ELSE <<>>]

get_baselines_report_by_device_ids(p, r, grp_list_resp, group_devices, devices_list, r2, report) ==
    LET x == get_identifiers(p, r, grp_list_resp, group_devices, devices_list)
        device_ids == x.ids
        identifier == x.identifier
        sent == Append(x.reqs, OmeReq("POST", baselines_report_by_device_ids_path, 0,
                                      device_ids, r2,
                                      IF r2 \in {"http", "url"} THEN <<>> ELSE report))
    IN  IF OmeStopped(x) THEN x
        ELSE IF device_ids # <<>> \/ identifier = "device_ids"
        THEN IF r2 \in {"http", "url"} THEN OmeRaise(sent, r2)
             ELSE [OmeRet(sent) EXCEPT !.data = report]
        ELSE IF identifier = "device_group_names"
        THEN OmeDone(x.reqs, OmeFail("Device details not available as the group name(s) provided are invalid."))
        ELSE OmeDone(x.reqs, OmeFail("Device details not available as the service tag(s) provided are invalid."))

\* main(): validate_inputs, then the function of the path x; an outcome a function
\* ended with stands, an exception becomes fail_json (with error_info for HTTPError),
\* and data is reported when it is not empty
\* main() reporting whatever data it got, empty or not
ome_main_reports_empty_data(p, x) ==
    LET invalid == ome_validate_inputs(p)
    IN  IF invalid.kind # "none" THEN [requests |-> <<>>, outcome |-> invalid]
        ELSE IF x.out.kind # "none" THEN [requests |-> x.reqs, outcome |-> x.out]
        ELSE IF x.exc # ""
        THEN [requests |-> x.reqs,
              outcome |-> [OmeFail(x.exc) EXCEPT !.error_info = (x.exc = "HTTPError")]]
        ELSE [requests |-> x.reqs, outcome |-> OmeExit(x.data)]

ome_main(p, x) ==
    LET invalid == ome_validate_inputs(p)
    IN  IF invalid.kind # "none" THEN [requests |-> <<>>, outcome |-> invalid]
        ELSE IF x.out.kind # "none" THEN [requests |-> x.reqs, outcome |-> x.out]
        ELSE IF x.exc # ""
        THEN [requests |-> x.reqs,
              outcome |-> [OmeFail(x.exc) EXCEPT !.error_info = (x.exc = "HTTPError")]]
        ELSE IF x.data # <<>> THEN [requests |-> x.reqs, outcome |-> OmeExit(x.data)]
        ELSE [requests |-> x.reqs,
              outcome |-> OmeFail("Failed to fetch the compliance baseline information.")]

OmeEnd(res) ==
    /\ ome' = [ome EXCEPT !.pc = "done", !.requests = res.requests, !.outcome = res.outcome]
    /\ UNCHANGED <<params, pc, requests, payload, snap, job, jobState, budget, lastResp,
                   outcome, first, conc>>

\* main() with baseline_name given
OmeBaselinePath ==
    /\ ome.pc = "start"
    /\ ome.params.given = "baseline_name"
    /\ \E r \in OmeResults, baseline_list \in BaselineLists, r2 \in OmeResults,
          report \in ReportData :
          OmeEnd(ome_main(ome.params,
                          get_baseline_compliance_reports(ome.params, r, baseline_list,
                                                          r2, report)))

\* main() with baseline_name not given
OmeDevicePath ==
    /\ ome.pc = "start"
    /\ ome.params.given # "baseline_name"
    /\ \E r \in OmeResults, grp_list_resp \in GroupLists, group_devices \in GroupDevices,
          devices_list \in DeviceLists, r2 \in OmeResults, report \in ReportData :
          OmeEnd(ome_main(ome.params,
                          get_baselines_report_by_device_ids(ome.params, r, grp_list_resp,
                              group_devices, devices_list, r2, report)))

\* an invocation of ome_firmware_baseline_compliance_info; the storage controller
\* module is not running
InitOme ==
    /\ params = CHOOSE p \in Invocations : TRUE
    /\ pc = "done"
    /\ requests = <<>>
    /\ payload = NoPayload
    /\ snap = NoSnap
    /\ job = NoJob
    /\ jobState = "None"
    /\ budget = 0
    /\ lastResp = NoStatus
    /\ outcome = NoOutcome
    /\ first = NoFirst
    /\ conc = NoConc
    /\ ome \in {[NoOme EXCEPT !.pc = "start", !.params = p] : p \in OmeInvocations}

SpecOme == InitOme /\ [][OmeBaselinePath \/ OmeDevicePath]_vars

----------------------------------------------------------------------------
(* C39 *)

OmeFinished == ome.pc = "done"

\* the requests for the compliance report of a baseline
BaselineReportReads ==
    {i \in 1..Len(ome.requests) : ome.requests[i].path = baselines_compliance_report_path}

\* C39: with baseline_name given, the compliance report of a baseline is requested only
\* after the baseline list was read and holds a baseline of exactly that name, and it is
\* requested for that baseline's id, never for id 0; an empty list ends in the failure
\* "No baseline exists in the system.", a list without the name in the failure
\* "Specified I(baseline_name) does not exist in the system.".
C39_ReportOnlyForNamedBaseline ==
    (OmeFinished /\ ome.params.given = "baseline_name") =>
        /\ \A i \in BaselineReportReads :
              /\ i > 1 /\ ome.requests[1].path = base_line_path
              /\ \E j \in 1..Len(ome.requests[1].value) :
                    /\ ome.requests[1].value[j].Name = ome.params.baseline_name
                    /\ ome.requests[1].value[j].Id = ome.requests[i].id
              /\ ome.requests[i].id # 0
        /\ (ome.requests # <<>> /\ ome.requests[1].result = "ok") =>
              LET baseline_list == ome.requests[1].value
              IN  IF baseline_list = <<>>
                  THEN /\ ome.outcome = OmeFail("No baseline exists in the system.")
                       /\ BaselineReportReads = {}
                  ELSE (\A j \in 1..Len(baseline_list) :
                            baseline_list[j].Name # ome.params.baseline_name)
                       => /\ ome.outcome = OmeFail("Specified I(baseline_name) does not exist in the system.")
                          /\ BaselineReportReads = {}

----------------------------------------------------------------------------
(* C40 *)

\* the requests for the report by device ids
DeviceReportRequests ==
    {i \in 1..Len(ome.requests) : ome.requests[i].path = baselines_report_by_device_ids_path}

\* the group names or service tags were looked up, every read succeeded, and no device
\* id came out of it
ResolvedToNoDevice ==
    /\ ome.requests # <<>> /\ ome.requests[1].result = "ok"
    /\ IF ome.params.given = "device_service_tags"
       THEN /\ ome.requests[1].path = device_is_list_path
            /\ \A j \in 1..Len(ome.requests[1].value) :
                  ome.requests[1].value[j].DeviceServiceTag
                      \notin Elems(ome.params.device_service_tags)
       ELSE /\ ome.params.given = "device_group_names"
            /\ ome.requests[1].path = group_service_path
            /\ \A i \in 2..Len(ome.requests) :
                  ome.requests[i].path = group_id_path
                      => ome.requests[i].result = "ok" /\ ome.requests[i].value = <<>>

NoDeviceOutcome ==
    IF ome.params.given = "device_group_names"
    THEN OmeFail("Device details not available as the group name(s) provided are invalid.")
    ELSE OmeFail("Device details not available as the service tag(s) provided are invalid.")

\* whenever a report came back empty the module failed
EmptyReportFails ==
    \A i \in 1..Len(ome.requests) :
        (/\ ome.requests[i].path \in {baselines_report_by_device_ids_path,
                                      baselines_compliance_report_path}
         /\ ome.requests[i].result \notin {"http", "url"}
         /\ ome.requests[i].value = <<>>)
            => ome.outcome = OmeFail("Failed to fetch the compliance baseline information.")

\* C40 as stated: on the device path, when device_group_names or device_service_tags
\* resolve to no device id the module fails with the matching "Device details not
\* available" message and requests no report; when device_ids is given the report is
\* always requested, with exactly those ids; and whenever the report data obtained is
\* empty the module ends with "Failed to fetch the compliance baseline information.".
C40_DevicePathAsStated ==
    OmeFinished =>
        /\ ResolvedToNoDevice => ome.outcome = NoDeviceOutcome /\ DeviceReportRequests = {}
        /\ ome.params.given = "device_ids"
              => /\ DeviceReportRequests = {1} /\ Len(ome.requests) = 1
                 /\ ome.requests[1].ids = ome.params.device_ids
        /\ EmptyReportFails

\* C40 as amended: the same, with device_ids given as a non-empty list; an empty
\* device_ids list ends in the failure "one of the following is required: ..." without
\* any request.
C40_DevicePath ==
    OmeFinished =>
        /\ ResolvedToNoDevice => ome.outcome = NoDeviceOutcome /\ DeviceReportRequests = {}
        /\ ome.params.given = "device_ids"
              => IF ome.params.device_ids # <<>>
                 THEN /\ DeviceReportRequests = {1} /\ Len(ome.requests) = 1
                      /\ ome.requests[1].ids = ome.params.device_ids
                 ELSE /\ ome.requests = <<>>
                      /\ ome.outcome = ome_validate_inputs(ome.params)
                      /\ ome.outcome.kind = "fail_json"
        /\ EmptyReportFails

\* the group asked for exists and holds no device: no report was requested
C40_Witness ==
    /\ OmeFinished /\ ome.params.given = "device_group_names"
    /\ ResolvedToNoDevice /\ Len(ome.requests) = 2
    /\ ome.outcome = NoDeviceOutcome

====
